---- MODULE Spec2Model ----
(***************************************************************************)
(* Model of src/src/flow/st-cuts.c (igraph): the Lengauer-Tarjan dominator *)
(* tree, the Provan-Shier enumeration of (s,t) edge cuts with the all-cuts *)
(* and the minimum-cuts pivot, the igraph_all_st_cuts and                  *)
(* igraph_all_st_mincuts facades, the Even-Tarjan reduction and the        *)
(* residual graphs.                                                        *)
(*                                                                         *)
(* C vectors indexed from 0 are functions on 0..n-1; growing vectors,      *)
(* stacks and queues are sequences.  A graph is a record                   *)
(*   [n |-> vertex count, edges |-> sequence of <<from, to>>, directed].   *)
(* Edge id e of the C code is position e+1 of the sequence.                *)
(***************************************************************************)
EXTENDS Integers, Sequences, FiniteSets, TLC

VARIABLES
    pc,          \* position of the running call
    graph,       \* the input graph
    root,        \* igraph_dominator_tree: root argument
    mode,        \* igraph_dominator_tree: mode argument
    want,        \* igraph_dominator_tree: which of dom/domtree/leftout are non-NULL
    dw,          \* igraph_dominator_tree: scratch vectors of the running call
    dom,         \* caller's dom vector
    domtree,     \* caller's domtree graph (NoGraph while uninitialized)
    leftout,     \* caller's leftout vector
    ret,         \* error code returned by the call
    source,      \* igraph_all_st_cuts: source argument
    target,      \* igraph_all_st_cuts: target argument
    S,           \* igraph_marked_queue_int_t S
    T,           \* igraph_estack_t T
    frames,      \* call stack of igraph_provan_shier_list
    pivot_ret,   \* igraph_provan_shier_list: what the last call of the pivot returned
    partition1s, \* list of emitted source-side partitions
    cuts,        \* list of edge cuts
    capacity,    \* capacity argument (NULL or a vector over the edges)
    flow,        \* flow vector
    value,       \* igraph_all_st_mincuts: caller's value
    residual,    \* the residual graph built by the running call
    NtoL,        \* igraph_all_st_mincuts: component id of every vertex
    VE1bool,     \* igraph_all_st_mincuts: the active vertices of the projection
    closedsets,  \* igraph_all_st_mincuts: closed sets listed by the search
    graphbar,    \* igraph_even_tarjan_reduction: the result graph
    residual_capacity  \* igraph_residual_graph: the result capacities

vars == <<pc, graph, root, mode, want, dw, dom, domtree, leftout, ret,
          source, target, S, T, frames, pivot_ret, partition1s, cuts,
          capacity, flow, value, residual, NtoL, VE1bool, closedsets,
          graphbar, residual_capacity>>

domVars == <<root, mode, want, dw, dom, domtree, leftout>>
cutVars == <<source, target, S, T, frames, pivot_ret, partition1s, cuts>>
flowVars == <<capacity, flow, value, residual, NtoL, VE1bool, closedsets,
              graphbar, residual_capacity>>

(***************************************************************************)
(* Bounds of the enumerated inputs.                                        *)
(***************************************************************************)
MaxN == 3
MaxEdges == 2

IGRAPH_SUCCESS == "IGRAPH_SUCCESS"
IGRAPH_EINVAL == "IGRAPH_EINVAL"
IGRAPH_UNIMPLEMENTED == "IGRAPH_UNIMPLEMENTED"
IGRAPH_OUT == "IGRAPH_OUT"
IGRAPH_IN == "IGRAPH_IN"
IGRAPH_ALL == "IGRAPH_ALL"
IGRAPH_EOVERFLOW == "IGRAPH_EOVERFLOW"
IGRAPH_ENOMEM == "IGRAPH_ENOMEM"
NoGraph == "uninitialized"
NoRet == "running"
\* a null pointer where a vector is expected: not a function on 0..(m - 1)
NULL == [i \in {-1} |-> 0]

(***************************************************************************)
(* Generic helpers.                                                        *)
(***************************************************************************)
Min(s) == CHOOSE x \in s : \A y \in s : x <= y
Max(s) == CHOOSE x \in s : \A y \in s : y <= x
Vec(n, x) == [i \in 0..(n - 1) |-> x]
Front(s) == SubSeq(s, 1, Len(s) - 1)
Last(s) == s[Len(s)]
SeqSet(s) == {s[k] : k \in 1..Len(s)}

RECURSIVE Repeat(_, _)
Repeat(x, k) == IF k <= 0 THEN <<>> ELSE <<x>> \o Repeat(x, k - 1)

(***************************************************************************)
(* Graph container accessors.                                              *)
(***************************************************************************)
igraph_vcount(g) == g.n
igraph_ecount(g) == Len(g.edges)
igraph_is_directed(g) == g.directed
IGRAPH_FROM(g, e) == g.edges[e + 1][1]
IGRAPH_TO(g, e) == g.edges[e + 1][2]
IGRAPH_REVERSE_MODE(m) ==
    IF m = IGRAPH_OUT THEN IGRAPH_IN ELSE IF m = IGRAPH_IN THEN IGRAPH_OUT ELSE IGRAPH_ALL

\* number of edges v -> u (mode OUT) or u -> v (mode IN)
EdgeCount(g, v, u, m) ==
    Cardinality({e \in 0..(igraph_ecount(g) - 1) :
        IF m = IGRAPH_OUT
        THEN IGRAPH_FROM(g, e) = v /\ IGRAPH_TO(g, e) = u
        ELSE IGRAPH_TO(g, e) = v /\ IGRAPH_FROM(g, e) = u})

RECURSIVE NeisFrom(_, _, _, _)
NeisFrom(g, v, m, u) ==
    IF u >= igraph_vcount(g) THEN <<>>
    ELSE Repeat(u, EdgeCount(g, v, u, m)) \o NeisFrom(g, v, m, u + 1)

\* neighbours of v in the given direction, sorted by vertex id, with multiplicity
igraph_neighbors(g, v, m) == NeisFrom(g, v, m, 0)

igraph_adjlist_init(g, m) == [v \in 0..(igraph_vcount(g) - 1) |-> igraph_neighbors(g, v, m)]

igraph_create(edges, n) == [n |-> n, edges |-> edges, directed |-> TRUE]

(***************************************************************************)
(* igraph_dfs from one root, unreachable = 0.  The result holds the        *)
(* preorder (order, unvisited slots -1), the DFS parents (father, root -1, *)
(* unvisited -2) and the sequence of in/out callback events.               *)
(***************************************************************************)
RECURSIVE DfsLoop(_, _)
DfsLoop(adj, st) ==
    IF st.stack = <<>> THEN st
    ELSE LET actvect == Last(st.stack)
             neis == adj[actvect]
             cand == {k \in (st.ptr[actvect] + 1)..Len(neis) : ~st.added[neis[k]]}
         IN IF cand # {}
            THEN LET k == Min(cand)
                     nei == neis[k]
                 IN DfsLoop(adj, [st EXCEPT !.ptr[actvect] = k,
                                            !.stack = Append(@, nei),
                                            !.added[nei] = TRUE,
                                            !.father[nei] = actvect,
                                            !.order = Append(@, nei),
                                            !.events = Append(@, <<"in", nei>>)])
            ELSE DfsLoop(adj, [st EXCEPT !.ptr[actvect] = Len(neis),
                                         !.stack = Front(@),
                                         !.events = Append(@, <<"out", actvect>>)])

igraph_dfs(g, r, m) ==
    LET n == igraph_vcount(g)
        st0 == [stack |-> <<r>>,
                ptr |-> Vec(n, 0),
                added |-> [Vec(n, FALSE) EXCEPT ![r] = TRUE],
                father |-> [Vec(n, -2) EXCEPT ![r] = -1],
                order |-> <<r>>,
                events |-> << <<"in", r>> >>]
        st == DfsLoop(igraph_adjlist_init(g, m), st0)
    IN [order |-> [i \in 0..(n - 1) |-> IF i < Len(st.order) THEN st.order[i + 1] ELSE -1],
        father |-> st.father,
        events |-> st.events]

(***************************************************************************)
(* igraph_i_dbucket_t: head[bid] and next[elem] are 1-based, 0 = none.     *)
(* The bucket vectors live in the scratch record d (fields head, next).    *)
(***************************************************************************)
igraph_i_dbucket_insert(d, bid, elem) ==
    [d EXCEPT !.next[elem] = d.head[bid], !.head[bid] = elem + 1]

igraph_i_dbucket_empty(d, bid) == d.head[bid] = 0

\* the element removed, and the scratch record after the removal
igraph_i_dbucket_delete(d, bid) ==
    LET elem == d.head[bid] - 1
    IN [elem |-> elem, d |-> [d EXCEPT !.head[bid] = d.next[elem]]]

igraph_i_dominator_LINK(v, w, d) == [d EXCEPT !.ancestor[w] = v + 1]

\* while (ancestor[w] != 0) { push(path, w); w = ancestor[w] - 1; }
RECURSIVE CompressPath(_, _, _)
CompressPath(d, w, path) ==
    IF d.ancestor[w] # 0 THEN CompressPath(d, d.ancestor[w] - 1, Append(path, w)) ELSE path

\* a plausible slip: the path is spliced but the labels are not propagated
RECURSIVE CompressPop_NoLabel(_, _, _)
CompressPop_NoLabel(d, path, top) ==
    IF path = <<>> THEN d
    ELSE LET pretop == Last(path)
         IN CompressPop_NoLabel([d EXCEPT !.ancestor[pretop] = d.ancestor[top]],
                                Front(path), pretop)

\* while (!empty(path)) { pretop = pop(path); ...; top = pretop; }
RECURSIVE CompressPop(_, _, _)
CompressPop(d, path, top) ==
    IF path = <<>> THEN d
    ELSE LET pretop == Last(path)
             d1 == [d EXCEPT !.label[pretop] =
                                 IF d.semi[d.label[top]] < d.semi[d.label[pretop]]
                                 THEN d.label[top] ELSE @,
                             !.ancestor[pretop] = d.ancestor[top]]
         IN CompressPop(d1, Front(path), pretop)

igraph_i_dominator_COMPRESS(v, d) ==
    LET path == CompressPath(d, v, <<>>)
    IN CompressPop(d, Front(path), Last(path))

\* the vertex returned, and the scratch record after path compression
igraph_i_dominator_EVAL(v, d) ==
    IF d.ancestor[v] = 0 THEN [u |-> v, d |-> d]
    ELSE LET d1 == igraph_i_dominator_COMPRESS(v, d)
         IN [u |-> d1.label[v], d |-> d1]

(***************************************************************************)
(* igraph_dominator_tree, cut into its steps.  A call is a record          *)
(*   [pc, g, root, mode, want, dw, dom, domtree, leftout, ret]             *)
(* where want says which of dom, domtree and leftout are non-NULL and dw   *)
(* holds the scratch vectors parent, semi, vertex, ancestor, label, the    *)
(* bucket (head, next), pred, mydom, component_size and the loop index i.  *)
(***************************************************************************)
NoScratch == <<>>

\* a plausible slip: the neighbor mode is not checked
DominatorArgError_NoModeCheck(g, r, m) ==
    IF r < 0 \/ r >= igraph_vcount(g) THEN IGRAPH_EINVAL
    ELSE IF ~igraph_is_directed(g) THEN IGRAPH_EINVAL
    ELSE IGRAPH_SUCCESS

\* lines 454-467: the argument checks
DominatorArgError(g, r, m) ==
    IF r < 0 \/ r >= igraph_vcount(g) THEN IGRAPH_EINVAL
    ELSE IF ~igraph_is_directed(g) THEN IGRAPH_EINVAL
    ELSE IF m = IGRAPH_ALL THEN IGRAPH_EINVAL
    ELSE IGRAPH_SUCCESS

\* lines 454-488: argument checks and allocation of the scratch vectors
dominator_tree_check(c) ==
    LET no_of_nodes == igraph_vcount(c.g)
        err == DominatorArgError(c.g, c.root, c.mode)
    IN IF err # IGRAPH_SUCCESS
       THEN [c EXCEPT !.pc = "done", !.ret = err]
       ELSE [c EXCEPT !.pc = "dfs",
                      !.dom = IF c.want.dom THEN Vec(no_of_nodes, -2) ELSE @,
                      !.dw = [mydom |-> Vec(no_of_nodes, -2),
                              parent |-> Vec(no_of_nodes, 0),
                              semi |-> Vec(no_of_nodes, 0),
                              vertex |-> Vec(no_of_nodes, 0),
                              ancestor |-> Vec(no_of_nodes, 0),
                              label |-> [v \in 0..(no_of_nodes - 1) |-> v],
                              pred |-> igraph_adjlist_init(c.g, IGRAPH_REVERSE_MODE(c.mode)),
                              head |-> Vec(no_of_nodes, 0),
                              next |-> Vec(no_of_nodes, 0),
                              component_size |-> 0,
                              i |-> 0]]

\* a plausible slip: the test vertex[i] > 0 passes over vertex 0
RECURSIVE SemiLoop_Positive(_, _, _)
SemiLoop_Positive(d, i, no_of_nodes) ==
    IF i >= no_of_nodes THEN d
    ELSE IF d.vertex[i] > 0
    THEN LET t == d.vertex[i]
         IN SemiLoop_Positive([d EXCEPT !.semi[t] = d.component_size + 1,
                                        !.vertex[d.component_size] = t + 1,
                                        !.component_size = @ + 1], i + 1, no_of_nodes)
    ELSE SemiLoop_Positive(d, i + 1, no_of_nodes)

\* lines 498-505: number the visited vertices, vertex[] becomes 1-based
RECURSIVE SemiLoop(_, _, _)
SemiLoop(d, i, no_of_nodes) ==
    IF i >= no_of_nodes THEN d
    ELSE IF d.vertex[i] >= 0
    THEN LET t == d.vertex[i]
         IN SemiLoop([d EXCEPT !.semi[t] = d.component_size + 1,
                               !.vertex[d.component_size] = t + 1,
                               !.component_size = @ + 1], i + 1, no_of_nodes)
    ELSE SemiLoop(d, i + 1, no_of_nodes)

\* a plausible slip: parent[j] < 0 also selects the root
RECURSIVE LeftoutLoop_Root(_, _, _, _, _)
LeftoutLoop_Root(parent, no_of_nodes, n, j, acc) ==
    IF j < no_of_nodes /\ Len(acc) < n
    THEN LeftoutLoop_Root(parent, no_of_nodes, n, j + 1,
                          IF parent[j] < 0 THEN Append(acc, j) ELSE acc)
    ELSE acc \o Repeat(0, n - Len(acc))

\* lines 510-514: for (j = 0; j < no_of_nodes && p < n; j++)
RECURSIVE LeftoutLoop(_, _, _, _, _)
LeftoutLoop(parent, no_of_nodes, n, j, acc) ==
    IF j < no_of_nodes /\ Len(acc) < n
    THEN LeftoutLoop(parent, no_of_nodes, n, j + 1,
                     IF parent[j] < -1 THEN Append(acc, j) ELSE acc)
    ELSE acc \o Repeat(0, n - Len(acc))

\* lines 522-531: drop the unreachable predecessors, swapping in the last one
RECURSIVE PruneLoop(_, _, _)
PruneLoop(v, parent, j) ==
    IF j > Len(v) THEN v
    ELSE IF parent[v[j]] >= -1 THEN PruneLoop(v, parent, j + 1)
    ELSE PruneLoop(Front([v EXCEPT ![j] = Last(v)]), parent, j)

\* lines 492-532: step 1 (DFS), leftout, pruning of pred
dominator_tree_dfs(c) ==
    LET no_of_nodes == igraph_vcount(c.g)
        r == igraph_dfs(c.g, c.root, c.mode)
        d1 == SemiLoop([c.dw EXCEPT !.vertex = r.order, !.parent = r.father], 0, no_of_nodes)
        d2 == [d1 EXCEPT !.pred = [v \in 0..(no_of_nodes - 1) |-> PruneLoop(d1.pred[v], d1.parent, 1)],
                         !.i = d1.component_size - 1]
    IN [c EXCEPT !.pc = "main",
                 !.dw = d2,
                 !.leftout = IF c.want.leftout
                             THEN LeftoutLoop(d2.parent, no_of_nodes,
                                              no_of_nodes - d2.component_size, 0, <<>>)
                             ELSE @]

\* lines 540-546
RECURSIVE PredLoop(_, _, _, _)
PredLoop(d, w, predw, j) ==
    IF j > Len(predw) THEN d
    ELSE LET v == predw[j]
             r == igraph_i_dominator_EVAL(v, d)
             d1 == IF r.d.semi[r.u] < r.d.semi[w]
                   THEN [r.d EXCEPT !.semi[w] = r.d.semi[r.u]]
                   ELSE r.d
         IN PredLoop(d1, w, predw, j + 1)

\* lines 549-554
RECURSIVE BucketLoop(_, _)
BucketLoop(d, w) ==
    IF igraph_i_dbucket_empty(d, d.parent[w]) THEN d
    ELSE LET del == igraph_i_dbucket_delete(d, d.parent[w])
             v == del.elem
             r == igraph_i_dominator_EVAL(v, del.d)
         IN BucketLoop([r.d EXCEPT !.mydom[v] =
                                       IF r.d.semi[r.u] < r.d.semi[v] THEN r.u ELSE d.parent[w]],
                       w)

\* lines 537-554: the body of the main loop for index d.i
MainIteration(d) ==
    LET w == d.vertex[d.i] - 1
        d1 == PredLoop(d, w, d.pred[w], 1)
        d2 == igraph_i_dbucket_insert(d1, d1.vertex[d1.semi[w] - 1] - 1, w)
        d3 == igraph_i_dominator_LINK(d2.parent[w], w, d2)
        d4 == BucketLoop(d3, w)
    IN [d4 EXCEPT !.i = @ - 1]

MirrorDom(c, d) == IF c.want.dom THEN d.mydom ELSE c.dom

\* lines 536-555: steps 2 & 3, one iteration of the loop on i
dominator_tree_main(c) ==
    LET d == MainIteration(c.dw)
    IN [c EXCEPT !.dw = d, !.dom = MirrorDom(c, d)]

\* a plausible slip: step 4 is left out
FixLoop_Skipped(d, i) == d

\* lines 559-564
RECURSIVE FixLoop(_, _)
FixLoop(d, i) ==
    IF i >= d.component_size THEN d
    ELSE LET w == d.vertex[i] - 1
         IN FixLoop(IF d.mydom[w] # d.vertex[d.semi[w] - 1] - 1
                    THEN [d EXCEPT !.mydom[w] = d.mydom[d.mydom[w]]]
                    ELSE d, i + 1)

\* lines 559-565: step 4 and the root's entry
dominator_tree_fix(c) ==
    LET d1 == FixLoop(c.dw, 1)
        d2 == [d1 EXCEPT !.mydom[c.root] = -1]
    IN [c EXCEPT !.pc = "tree", !.dw = d2, !.dom = MirrorDom(c, d2)]

\* a plausible slip: mydom[i] > 0 drops the children of vertex 0
RECURSIVE TreeEdges_Positive(_, _, _, _, _)
TreeEdges_Positive(mydom, r, m, no_of_nodes, i) ==
    IF i >= no_of_nodes THEN <<>>
    ELSE (IF i # r /\ mydom[i] > 0
          THEN IF m = IGRAPH_OUT THEN << <<mydom[i], i>> >> ELSE << <<i, mydom[i]>> >>
          ELSE <<>>)
         \o TreeEdges_Positive(mydom, r, m, no_of_nodes, i + 1)

\* a plausible slip: the edges are oriented (dom[v], v) in both modes
RECURSIVE TreeEdges_OutOnly(_, _, _, _, _)
TreeEdges_OutOnly(mydom, r, m, no_of_nodes, i) ==
    IF i >= no_of_nodes THEN <<>>
    ELSE (IF i # r /\ mydom[i] >= 0 THEN << <<mydom[i], i>> >> ELSE <<>>)
         \o TreeEdges_OutOnly(mydom, r, m, no_of_nodes, i + 1)

\* lines 581-591
RECURSIVE TreeEdges(_, _, _, _, _)
TreeEdges(mydom, r, m, no_of_nodes, i) ==
    IF i >= no_of_nodes THEN <<>>
    ELSE (IF i # r /\ mydom[i] >= 0
          THEN IF m = IGRAPH_OUT THEN << <<mydom[i], i>> >> ELSE << <<i, mydom[i]>> >>
          ELSE <<>>)
         \o TreeEdges(mydom, r, m, no_of_nodes, i + 1)

\* lines 567-607: release the scratch vectors, build domtree if requested
dominator_tree_emit(c) ==
    [c EXCEPT !.pc = "done",
              !.ret = IGRAPH_SUCCESS,
              !.dw = NoScratch,
              !.domtree = IF c.want.domtree
                          THEN igraph_create(TreeEdges(c.dw.mydom, c.root, c.mode,
                                                       igraph_vcount(c.g), 0),
                                             igraph_vcount(c.g))
                          ELSE @]

dominator_tree_step(c) ==
    CASE c.pc = "check" -> dominator_tree_check(c)
      [] c.pc = "dfs" -> dominator_tree_dfs(c)
      [] c.pc = "main" /\ c.dw.i > 0 -> dominator_tree_main(c)
      [] c.pc = "main" /\ c.dw.i <= 0 -> dominator_tree_fix(c)
      [] c.pc = "tree" -> dominator_tree_emit(c)

RECURSIVE DominatorRun(_)
DominatorRun(c) == IF c.pc = "done" THEN c ELSE DominatorRun(dominator_tree_step(c))

\* lines 429-608: the whole call; dom0, domtree0, leftout0 are the caller's objects
igraph_dominator_tree(g, r, w, m, dom0, domtree0, leftout0) ==
    DominatorRun([pc |-> "check", g |-> g, root |-> r, mode |-> m, want |-> w,
                  dw |-> NoScratch, dom |-> dom0, domtree |-> domtree0,
                  leftout |-> leftout0, ret |-> NoRet])

\* which of dom, domtree and leftout the caller passes (non-NULL)
WantAll == [dom |-> TRUE, domtree |-> TRUE, leftout |-> TRUE]
WantPivot == [dom |-> FALSE, domtree |-> TRUE, leftout |-> TRUE]
WantNone == [dom |-> FALSE, domtree |-> FALSE, leftout |-> FALSE]

\* the caller's objects before the call: initialized empty vectors, no graph
DomInitial == <<>>
LeftoutInitial == <<>>

(***************************************************************************)
(* igraph_bfs in direction OUT from the given roots, unreachable = 0, with *)
(* a restricted vertex set: vertices outside `restricted` count as already *)
(* found, so a root outside it is skipped.  The result is the order vector *)
(* (visit order, unused slots -1).                                         *)
(***************************************************************************)
RECURSIVE BfsNeis(_, _, _, _)
BfsNeis(neis, k, Q, added) ==
    IF k > Len(neis) THEN [Q |-> Q, added |-> added]
    ELSE IF added[neis[k]] THEN BfsNeis(neis, k + 1, Q, added)
    ELSE BfsNeis(neis, k + 1, Append(Q, neis[k]), [added EXCEPT ![neis[k]] = TRUE])

RECURSIVE BfsQueue(_, _, _, _)
BfsQueue(adj, Q, added, order) ==
    IF Q = <<>> THEN [added |-> added, order |-> order]
    ELSE LET actvect == Head(Q)
             r == BfsNeis(adj[actvect], 1, Tail(Q), added)
         IN BfsQueue(adj, r.Q, r.added, Append(order, actvect))

RECURSIVE BfsRoots(_, _, _, _, _)
BfsRoots(adj, roots, k, added, order) ==
    IF k > Len(roots) THEN order
    ELSE IF added[roots[k]] THEN BfsRoots(adj, roots, k + 1, added, order)
    ELSE LET r == BfsQueue(adj, <<roots[k]>>, [added EXCEPT ![roots[k]] = TRUE], order)
         IN BfsRoots(adj, roots, k + 1, r.added, r.order)

igraph_bfs(g, roots, restricted) ==
    LET n == igraph_vcount(g)
        added == [v \in 0..(n - 1) |-> v \notin SeqSet(restricted)]
        ord == BfsRoots(igraph_adjlist_init(g, IGRAPH_OUT), roots, 1, added, <<>>)
    IN [i \in 0..(n - 1) |-> IF i < Len(ord) THEN ord[i + 1] ELSE -1]

(***************************************************************************)
(* igraph_induced_subgraph_map on an increasing vertex list: the subgraph, *)
(* map[v] = new id + 1 (0 when v is dropped) and invmap[new id] = v.       *)
(***************************************************************************)
PositionIn(s, v) == IF v \in SeqSet(s) THEN CHOOSE k \in 1..Len(s) : s[k] = v ELSE 0

RECURSIVE InducedEdges(_, _, _)
InducedEdges(g, map, e) ==
    IF e >= igraph_ecount(g) THEN <<>>
    ELSE (IF map[IGRAPH_FROM(g, e)] # 0 /\ map[IGRAPH_TO(g, e)] # 0
          THEN << <<map[IGRAPH_FROM(g, e)] - 1, map[IGRAPH_TO(g, e)] - 1>> >>
          ELSE <<>>)
         \o InducedEdges(g, map, e + 1)

igraph_induced_subgraph_map(g, vids) ==
    LET map == [v \in 0..(igraph_vcount(g) - 1) |-> PositionIn(vids, v)]
    IN [graph |-> igraph_create(InducedEdges(g, map, 0), Len(vids)),
        map |-> map,
        invmap |-> [i \in 0..(Len(vids) - 1) |-> vids[i + 1]]]

(***************************************************************************)
(* igraph_marked_queue_int_t (S): the list of vertices in insertion order, *)
(* the membership bitmap and the stack of batch boundaries.                *)
(* igraph_estack_t (T): a stack with a membership bitmap.                  *)
(***************************************************************************)
igraph_marked_queue_int_init(size) ==
    [list |-> <<>>, set |-> Vec(size, FALSE), batches |-> <<>>]

igraph_marked_queue_int_iselement(q, elem) == q.set[elem]

igraph_marked_queue_int_size(q) == Len(q.list)

igraph_marked_queue_int_as_vector(q) == q.list

igraph_marked_queue_int_start_batch(q) == [q EXCEPT !.batches = Append(@, Len(q.list))]

\* the error code, and the queue after the push
igraph_marked_queue_int_push(q, elem) ==
    IF q.set[elem] THEN [ret |-> IGRAPH_EINVAL, q |-> q]
    ELSE [ret |-> IGRAPH_SUCCESS,
          q |-> [q EXCEPT !.list = Append(@, elem), !.set[elem] = TRUE]]

igraph_marked_queue_int_pop_back_batch(q) ==
    LET keep == IF q.batches = <<>> THEN 0 ELSE Last(q.batches)
    IN [list |-> SubSeq(q.list, 1, keep),
        set |-> [v \in DOMAIN q.set |-> q.set[v] /\ v \in SeqSet(SubSeq(q.list, 1, keep))],
        batches |-> IF q.batches = <<>> THEN <<>> ELSE Front(q.batches)]

igraph_estack_init(setsize) == [stack |-> <<>>, isin |-> Vec(setsize, FALSE)]

igraph_estack_iselement(s, elem) == s.isin[elem]

\* the error code, and the stack after the push
igraph_estack_push(s, elem) ==
    IF s.isin[elem] THEN [ret |-> IGRAPH_EINVAL, s |-> s]
    ELSE [ret |-> IGRAPH_SUCCESS,
          s |-> [s EXCEPT !.stack = Append(@, elem), !.isin[elem] = TRUE]]

igraph_estack_pop(s) ==
    [s EXCEPT !.stack = Front(@), !.isin[Last(s.stack)] = FALSE]

(***************************************************************************)
(* igraph_i_all_st_cuts_minimal: the minimal elements of Gamma(S) in the   *)
(* dominator tree.  data = [stack, nomark]; GammaX and map are read only.  *)
(***************************************************************************)
\* lines 618-642
igraph_i_all_st_cuts_minimal_dfs_incb(data, GammaX, map, vid) ==
    LET realvid == map[vid]
    IN IF GammaX[realvid]
       THEN [stack |-> Append(data.stack, realvid),
             nomark |-> IF data.stack # <<>>
                        THEN [data.nomark EXCEPT ![Last(data.stack)] = TRUE]
                        ELSE data.nomark]
       ELSE data

\* lines 644-662
igraph_i_all_st_cuts_minimal_dfs_outcb(data, map, vid) ==
    LET realvid == map[vid]
    IN IF data.stack # <<>> /\ Last(data.stack) = realvid
       THEN [data EXCEPT !.stack = Front(@)]
       ELSE data

RECURSIVE MinimalCallbacks(_, _, _, _, _)
MinimalCallbacks(events, k, data, GammaX, map) ==
    IF k > Len(events) THEN data
    ELSE MinimalCallbacks(events, k + 1,
                          IF events[k][1] = "in"
                          THEN igraph_i_all_st_cuts_minimal_dfs_incb(data, GammaX, map, events[k][2])
                          ELSE igraph_i_all_st_cuts_minimal_dfs_outcb(data, map, events[k][2]),
                          GammaX, map)

\* the vertices v of 0..n-1 with flag[v], in increasing order
RECURSIVE Marked(_, _, _)
Marked(flag, n, i) ==
    IF i >= n THEN <<>>
    ELSE (IF flag[i] THEN <<i>> ELSE <<>>) \o Marked(flag, n, i + 1)

\* lines 664-721
igraph_i_all_st_cuts_minimal(g, dtree, r, GammaX, invmap) ==
    LET no_of_nodes == igraph_vcount(g)
        nomark == [i \in 0..(no_of_nodes - 1) |-> ~GammaX[i]]
        data == MinimalCallbacks(igraph_dfs(dtree, r, IGRAPH_IN).events, 1,
                                 [stack |-> <<>>, nomark |-> nomark], GammaX, invmap)
    IN Marked([i \in 0..(no_of_nodes - 1) |-> ~data.nomark[i]], no_of_nodes, 0)

(***************************************************************************)
(* igraph_i_all_st_cuts_pivot.                                             *)
(***************************************************************************)
\* the entries of vec before the first negative one, at most limit of them
RECURSIVE NonNegativePrefix(_, _, _)
NonNegativePrefix(vec, limit, k) ==
    IF k < limit /\ vec[k] >= 0 THEN <<vec[k]>> \o NonNegativePrefix(vec, limit, k + 1)
    ELSE <<>>

\* lines 785-808: Gamma(S), or {source} when S is empty
PivotGammaS(g, Sq, Sbar_map, src) ==
    LET no_of_nodes == igraph_vcount(g)
    IN IF igraph_marked_queue_int_size(Sq) = 0
       THEN [Vec(no_of_nodes, FALSE) EXCEPT ![Sbar_map[src] - 1] = TRUE]
       ELSE [nei \in 0..(no_of_nodes - 1) |->
                /\ ~igraph_marked_queue_int_iselement(Sq, nei)
                /\ \E i \in 0..(no_of_nodes - 1) :
                      /\ igraph_marked_queue_int_iselement(Sq, i)
                      /\ nei \in SeqSet(igraph_neighbors(g, i, IGRAPH_OUT))]

\* a plausible slip: the left-out vertices are not added to Nu(v) for the final I(S,v)
RECURSIVE PivotLoop_NoLeftout(_, _, _)
PivotLoop_NoLeftout(x, i, v0) ==
    IF i >= Len(x.M) THEN [ret |-> IGRAPH_SUCCESS, v |-> v0, Isv |-> <<>>]
    ELSE LET no_of_nodes == igraph_vcount(x.g)
             min == x.Sbar_map[x.M[i + 1]] - 1
             order == igraph_dfs(x.domtree, min, IGRAPH_IN).order
             sub == NonNegativePrefix(order, x.Sbar_size, 0)
             Nuv == [k \in DOMAIN sub |-> x.Sbar_invmap[sub[k]]]
             Isv_min == NonNegativePrefix(igraph_bfs(x.g, x.GammaS_vec, Nuv), no_of_nodes, 0)
         IN IF \A j \in 1..Len(Isv_min) :
                  ~(igraph_estack_iselement(x.Tq, Isv_min[j]) \/ Isv_min[j] = x.tgt)
            THEN [ret |-> IGRAPH_SUCCESS,
                  v |-> x.M[i + 1],
                  Isv |-> NonNegativePrefix(igraph_bfs(x.g, <<x.M[i + 1]>>, Nuv), no_of_nodes, 0)]
            ELSE PivotLoop_NoLeftout(x, i + 1, v0)

\* lines 837-909: try the minimal elements in order; x holds what the loop reads
RECURSIVE PivotLoop(_, _, _)
PivotLoop(x, i, v0) ==
    IF i >= Len(x.M) THEN [ret |-> IGRAPH_SUCCESS, v |-> v0, Isv |-> <<>>]
    ELSE LET no_of_nodes == igraph_vcount(x.g)
             min == x.Sbar_map[x.M[i + 1]] - 1
             order == igraph_dfs(x.domtree, min, IGRAPH_IN).order
             sub == NonNegativePrefix(order, x.Sbar_size, 0)
             Nuv == [k \in DOMAIN sub |-> x.Sbar_invmap[sub[k]]]
             Isv_min == NonNegativePrefix(igraph_bfs(x.g, x.GammaS_vec, Nuv), no_of_nodes, 0)
         IN IF \A j \in 1..Len(Isv_min) :
                  ~(igraph_estack_iselement(x.Tq, Isv_min[j]) \/ Isv_min[j] = x.tgt)
            THEN [ret |-> IGRAPH_SUCCESS,
                  v |-> x.M[i + 1],
                  Isv |-> NonNegativePrefix(igraph_bfs(x.g, <<x.M[i + 1]>>, Nuv \o x.leftout),
                                            no_of_nodes, 0)]
            ELSE PivotLoop(x, i + 1, v0)

\* lines 779-926: Gamma(S), the left-out vertices relabelled, the minimal
\* elements M and the search among them; dt is the dominator tree call's result
PivotWithDomtree(g, Sq, Tq, src, tgt, v0, Sbar_size, Sbar, dt) ==
    IF dt.ret # IGRAPH_SUCCESS THEN [ret |-> dt.ret, v |-> v0, Isv |-> <<>>]
    ELSE LET no_of_nodes == igraph_vcount(g)
             r == Sbar.map[tgt] - 1
             lo == [k \in DOMAIN dt.leftout |-> Sbar.invmap[dt.leftout[k]]]
             Gamma0 == PivotGammaS(g, Sq, Sbar.map, src)
             GammaS == [u \in 0..(no_of_nodes - 1) |-> Gamma0[u] /\ u \notin SeqSet(lo)]
             M == IF igraph_ecount(dt.domtree) > 0
                  THEN igraph_i_all_st_cuts_minimal(g, dt.domtree, r, GammaS, Sbar.invmap)
                  ELSE <<>>
         IN PivotLoop([g |-> g, Tq |-> Tq, tgt |-> tgt, M |-> M,
                       Sbar_map |-> Sbar.map, Sbar_invmap |-> Sbar.invmap,
                       Sbar_size |-> Sbar_size, domtree |-> dt.domtree,
                       leftout |-> lo, GammaS_vec |-> Marked(GammaS, no_of_nodes, 0)],
                      0, v0)

\* lines 768-777: the dominator tree of Sbar towards the target (mode IN),
\* without dom, with the tree and the left-out vertices
PivotWithSbar(g, Sq, Tq, src, tgt, v0, Sbar_size, Sbar) ==
    PivotWithDomtree(g, Sq, Tq, src, tgt, v0, Sbar_size, Sbar,
                     igraph_dominator_tree(Sbar.graph, Sbar.map[tgt] - 1, WantPivot, IGRAPH_IN,
                                           DomInitial, NoGraph, LeftoutInitial))

\* lines 724-926; v0 is the caller's *v, Isv is empty on entry
igraph_i_all_st_cuts_pivot(g, Sq, Tq, src, tgt, v0) ==
    LET no_of_nodes == igraph_vcount(g)
        keep == Marked([i \in 0..(no_of_nodes - 1) |-> ~igraph_marked_queue_int_iselement(Sq, i)],
                       no_of_nodes, 0)
    IN PivotWithSbar(g, Sq, Tq, src, tgt, v0, Len(keep), igraph_induced_subgraph_map(g, keep))

(***************************************************************************)
(* igraph_provan_shier_list, cut into its steps.  The recursion is kept as *)
(* a stack of frames [v, Isv, phase], one per call waiting for a child to  *)
(* return: phase "left" while the left child runs, "right" while the right *)
(* child runs.  An enumeration is a record                                 *)
(*   [pc, g, source, target, S, T, frames, result, ret, pivot_ret]         *)
(* with pc = "call" when a call is entered and "return" when one returned. *)
(***************************************************************************)
\* a plausible slip: S is emitted without looking at its size
provan_shier_list_branch_NoSizeTest(c, p) ==
    IF p.Isv = <<>>
    THEN [c EXCEPT !.pc = "return",
                   !.pivot_ret = p.ret,
                   !.result = Append(@, igraph_marked_queue_int_as_vector(c.S))]
    ELSE LET r == igraph_estack_push(c.T, p.v)
         IN IF r.ret # IGRAPH_SUCCESS
            THEN [c EXCEPT !.pc = "done", !.pivot_ret = p.ret, !.ret = r.ret]
            ELSE [c EXCEPT !.pc = "call",
                           !.pivot_ret = p.ret,
                           !.T = r.s,
                           !.frames = Append(@, [v |-> p.v, Isv |-> p.Isv, phase |-> "left"])]

\* lines 948-959: emit S when the pivot gave no Isv, else push v on T and
\* descend left; p is what the pivot left in v and Isv and what it returned,
\* which is kept for the record and not looked at
provan_shier_list_branch(c, p) ==
    IF p.Isv = <<>>
    THEN [c EXCEPT !.pc = "return",
                   !.pivot_ret = p.ret,
                   !.result =
                       IF /\ igraph_marked_queue_int_size(c.S) # 0
                          /\ igraph_marked_queue_int_size(c.S) # igraph_vcount(c.g)
                       THEN Append(@, igraph_marked_queue_int_as_vector(c.S))
                       ELSE @]
    ELSE LET r == igraph_estack_push(c.T, p.v)
         IN IF r.ret # IGRAPH_SUCCESS
            THEN [c EXCEPT !.pc = "done", !.pivot_ret = p.ret, !.ret = r.ret]
            ELSE [c EXCEPT !.pc = "call",
                           !.pivot_ret = p.ret,
                           !.T = r.s,
                           !.frames = Append(@, [v |-> p.v, Isv |-> p.Isv, phase |-> "left"])]

\* lines 937-959: pivot, then emit S or descend left with v pushed on T.
\* The value returned by the pivot is not looked at (line 946).
provan_shier_list_enter(c) ==
    provan_shier_list_branch(c, igraph_i_all_st_cuts_pivot(c.g, c.S, c.T, c.source, c.target, 0))

\* a plausible slip: the batch is opened and nothing is pushed
PushIsv_Nothing(q, Isv, i) == q

\* lines 967-971
RECURSIVE PushIsv(_, _, _)
PushIsv(q, Isv, i) ==
    IF i >= Len(Isv) THEN q
    ELSE IF ~igraph_marked_queue_int_iselement(q, Isv[i + 1])
    THEN PushIsv(igraph_marked_queue_int_push(q, Isv[i + 1]).q, Isv, i + 1)
    ELSE PushIsv(q, Isv, i + 1)

\* a plausible slip: v stays on T while the right child runs
provan_shier_list_after_left_NoPop(c) ==
    LET f == Last(c.frames)
    IN [c EXCEPT !.pc = "call",
                 !.S = PushIsv(igraph_marked_queue_int_start_batch(c.S), f.Isv, 0),
                 !.frames = [@ EXCEPT ![Len(c.frames)].phase = "right"]]

\* lines 961-976: the left child returned; take v out of T, add Isv to S
\* as one batch and descend right
provan_shier_list_after_left(c) ==
    LET f == Last(c.frames)
    IN [c EXCEPT !.pc = "call",
                 !.T = igraph_estack_pop(c.T),
                 !.S = PushIsv(igraph_marked_queue_int_start_batch(c.S), f.Isv, 0),
                 !.frames = [@ EXCEPT ![Len(c.frames)].phase = "right"]]

\* a plausible slip: the batch of the right child stays in S
provan_shier_list_after_right_NoBatchPop(c) ==
    [c EXCEPT !.pc = "return",
              !.frames = Front(@)]

\* lines 978-986: the right child returned; take Isv out of S and return
provan_shier_list_after_right(c) ==
    [c EXCEPT !.pc = "return",
              !.S = igraph_marked_queue_int_pop_back_batch(c.S),
              !.frames = Front(@)]

(***************************************************************************)
(* igraph_all_st_cuts.                                                     *)
(***************************************************************************)
\* lines 1075-1078
RECURSIVE MarkElements(_, _, _, _)
MarkElements(inS, part, j, mark) ==
    IF j >= Len(part) THEN inS
    ELSE MarkElements([inS EXCEPT ![part[j + 1]] = mark], part, j + 1, mark)

\* lines 1080-1088
RECURSIVE CutSize(_, _, _, _)
CutSize(g, inS, i, j) ==
    IF j >= igraph_ecount(g) THEN 0
    ELSE (IF inS[IGRAPH_FROM(g, j)] = i + 1 /\ inS[IGRAPH_TO(g, j)] # i + 1 THEN 1 ELSE 0)
         + CutSize(g, inS, i, j + 1)

\* a plausible slip: any mark counts as "in S", so the marks of earlier rounds leak
RECURSIVE CutFill_Stale(_, _, _, _)
CutFill_Stale(g, inS, i, j) ==
    IF j >= igraph_ecount(g) THEN <<>>
    ELSE (IF inS[IGRAPH_FROM(g, j)] # 0 /\ inS[IGRAPH_TO(g, j)] # i + 1 THEN <<j>> ELSE <<>>)
         \o CutFill_Stale(g, inS, i, j + 1)

\* lines 1092-1100
RECURSIVE CutFill(_, _, _, _)
CutFill(g, inS, i, j) ==
    IF j >= igraph_ecount(g) THEN <<>>
    ELSE (IF inS[IGRAPH_FROM(g, j)] = i + 1 /\ inS[IGRAPH_TO(g, j)] # i + 1 THEN <<j>> ELSE <<>>)
         \o CutFill(g, inS, i, j + 1)

\* a plausible slip: the mark is the same in every round, so the vertices of
\* earlier partitions stay marked
RECURSIVE CutsLoop_SameMark(_, _, _, _, _)
CutsLoop_SameMark(g, parts, i, inS, acc) ==
    IF i >= Len(parts) THEN acc
    ELSE LET marked == MarkElements(inS, parts[i + 1], 0, 1)
             cutsize == CutSize(g, marked, 0, 0)
             filled == CutFill(g, marked, 0, 0)
             cut == [k \in 1..cutsize |-> IF k <= Len(filled) THEN filled[k] ELSE 0]
         IN CutsLoop_SameMark(g, parts, i + 1, marked, Append(acc, cut))

\* lines 1070-1103: one cut per partition; inS keeps the marks of earlier rounds
RECURSIVE CutsLoop(_, _, _, _, _)
CutsLoop(g, parts, i, inS, acc) ==
    IF i >= Len(parts) THEN acc
    ELSE LET marked == MarkElements(inS, parts[i + 1], 0, i + 1)
             cutsize == CutSize(g, marked, i, 0)
             filled == CutFill(g, marked, i, 0)
             cut == [k \in 1..cutsize |-> IF k <= Len(filled) THEN filled[k] ELSE 0]
         IN CutsLoop(g, parts, i + 1, marked, Append(acc, cut))

\* lines 1064-1107
all_st_cuts_edges(g, parts) == CutsLoop(g, parts, 0, Vec(igraph_vcount(g), 0), <<>>)

\* the lists the caller passes in: initialized, with content of an earlier use
StaleList == << <<0>> >>

(***************************************************************************)
(* Inputs: every directed multigraph on MaxN vertices with at most         *)
(* MaxEdges edges (self-loops and parallel edges included, edge list in    *)
(* nondecreasing order of (from, to)), and the scenario graphs.            *)
(***************************************************************************)
PairOf(n, p) == <<p \div n, p % n>>

EdgeLists(n) ==
    {[k \in DOMAIN f |-> PairOf(n, f[k])] :
        f \in {h \in UNION {[1..k -> 0..(n * n - 1)] : k \in 0..MaxEdges} :
                  \A k \in 1..(Len(h) - 1) : h[k] <= h[k + 1]}}

EnumeratedGraphs == {igraph_create(el, MaxN) : el \in EdgeLists(MaxN)}

\* scenario S1: the flowgraph of the Lengauer-Tarjan paper
GraphS1 ==
    igraph_create(<< <<0, 1>>, <<0, 2>>, <<0, 3>>, <<1, 4>>, <<2, 1>>, <<2, 4>>, <<2, 5>>,
                     <<3, 6>>, <<3, 7>>, <<4, 12>>, <<5, 8>>, <<6, 9>>, <<7, 9>>, <<7, 10>>,
                     <<8, 5>>, <<8, 11>>, <<9, 11>>, <<10, 9>>, <<11, 0>>, <<11, 9>>,
                     <<12, 8>> >>, 13)

\* scenario S3: the diamond
GraphS3 == igraph_create(<< <<0, 1>>, <<0, 2>>, <<1, 3>>, <<2, 3>> >>, 4)

\* scenario S5: one edge and an unreachable vertex
GraphS5 == igraph_create(<< <<0, 1>> >>, 3)

\* a flowgraph with a cycle, a vertex whose semidominator is not its
\* immediate dominator, and an unreachable vertex
GraphLoop ==
    igraph_create(<< <<0, 1>>, <<0, 2>>, <<1, 3>>, <<2, 4>>, <<3, 4>>, <<4, 3>>,
                     <<3, 5>>, <<4, 5>>, <<5, 1>>, <<6, 5>> >>, 7)

ScenarioGraphs == {GraphS1, GraphS3, GraphS5, GraphLoop}

Undirected(g) == [g EXCEPT !.directed = FALSE]

NoCutState ==
    /\ source = 0 /\ target = 0
    /\ S = <<>> /\ T = <<>> /\ frames = <<>> /\ pivot_ret = NoRet
    /\ partition1s = <<>> /\ cuts = <<>>

NoFlowState ==
    /\ capacity = NULL /\ flow = <<>> /\ value = 0
    /\ residual = NoGraph /\ NtoL = <<>> /\ VE1bool = <<>> /\ closedsets = <<>>
    /\ graphbar = NoGraph /\ residual_capacity = <<>>

(***************************************************************************)
(* Specification DomSpec: one call of igraph_dominator_tree.               *)
(***************************************************************************)
DomInit ==
    /\ pc = "check"
    /\ \E g \in EnumeratedGraphs \cup ScenarioGraphs :
          /\ graph \in {g, Undirected(g)}
          /\ root \in -1..igraph_vcount(g)
    /\ mode \in {IGRAPH_OUT, IGRAPH_IN, IGRAPH_ALL}
    /\ want \in {WantAll, WantPivot, WantNone}
    /\ dw = NoScratch
    /\ dom = DomInitial
    /\ domtree = NoGraph
    /\ leftout = LeftoutInitial
    /\ ret = NoRet
    /\ NoCutState
    /\ NoFlowState

DomCall ==
    [pc |-> pc, g |-> graph, root |-> root, mode |-> mode, want |-> want, dw |-> dw,
     dom |-> dom, domtree |-> domtree, leftout |-> leftout, ret |-> ret]

DomUpdate(c) ==
    /\ pc' = c.pc
    /\ dw' = c.dw
    /\ dom' = c.dom
    /\ domtree' = c.domtree
    /\ leftout' = c.leftout
    /\ ret' = c.ret
    /\ UNCHANGED <<graph, root, mode, want>>
    /\ UNCHANGED cutVars
    /\ UNCHANGED flowVars

DomCheck == pc = "check" /\ DomUpdate(dominator_tree_check(DomCall))

DomDfs == pc = "dfs" /\ DomUpdate(dominator_tree_dfs(DomCall))

DomMain == pc = "main" /\ dw.i > 0 /\ DomUpdate(dominator_tree_main(DomCall))

DomFix == pc = "main" /\ dw.i <= 0 /\ DomUpdate(dominator_tree_fix(DomCall))

DomEmit == pc = "tree" /\ DomUpdate(dominator_tree_emit(DomCall))

DomNext == DomCheck \/ DomDfs \/ DomMain \/ DomFix \/ DomEmit

DomSpec == DomInit /\ [][DomNext]_vars

(***************************************************************************)
(* Reference definitions: reachability and dominance, from the glossary    *)
(* and the documentation of igraph_dominator_tree (lines 381-389).         *)
(***************************************************************************)
Heads(g, m, from) ==
    {IF m = IGRAPH_OUT THEN g.edges[k][2] ELSE g.edges[k][1] :
        k \in {k \in 1..Len(g.edges) :
                  (IF m = IGRAPH_OUT THEN g.edges[k][1] ELSE g.edges[k][2]) \in from}}

RECURSIVE ReachGrow(_, _, _, _)
ReachGrow(g, m, allowed, seen) ==
    LET more == seen \cup (Heads(g, m, seen) \cap allowed)
    IN IF more = seen THEN seen ELSE ReachGrow(g, m, allowed, more)

\* vertices that a walk from r reaches in direction m without leaving `allowed`
ReachWithin(g, r, m, allowed) ==
    IF r \in allowed THEN ReachGrow(g, m, allowed, {r}) ELSE {}

Vertices(g) == 0..(igraph_vcount(g) - 1)

Reachable(g, r, m) == ReachWithin(g, r, m, Vertices(g))

\* v dominates w in the flowgraph rooted at r: w is reachable from r and
\* every path from r to w contains v
Dominates(g, r, m, v, w) ==
    /\ w \in Reachable(g, r, m)
    /\ (v = w \/ w \notin ReachWithin(g, r, m, Vertices(g) \ {v}))

StrictDominators(g, r, m, w) ==
    {v \in Vertices(g) \ {w} : Dominates(g, r, m, v, w)}

\* v is the strict dominator of w that every other strict dominator of w dominates
IsImmediateDominator(g, r, m, v, w) ==
    /\ v \in StrictDominators(g, r, m, w)
    /\ \A u \in StrictDominators(g, r, m, w) : u = v \/ Dominates(g, r, m, u, v)

RECURSIVE SortedSeq(_)
SortedSeq(s) == IF s = {} THEN <<>> ELSE <<Min(s)>> \o SortedSeq(s \ {Min(s)})

ReverseGraph(g) ==
    [g EXCEPT !.edges = [k \in DOMAIN g.edges |-> <<g.edges[k][2], g.edges[k][1]>>]]

DomReturned == pc = "done" /\ ret = IGRAPH_SUCCESS

(***************************************************************************)
(* Claims about igraph_dominator_tree, checked under DomSpec.              *)
(***************************************************************************)

\* C1: in mode OUT, dom[v] is the immediate dominator of every reachable
\* v # root, dom[root] = -1 and dom[v] = -2 for every unreachable v.
C1_DomIsImmediateDominator ==
    (DomReturned /\ mode = IGRAPH_OUT /\ want.dom) =>
        \A v \in Vertices(graph) :
            IF v = root THEN dom[v] = -1
            ELSE IF v \in Reachable(graph, root, IGRAPH_OUT)
                 THEN IsImmediateDominator(graph, root, IGRAPH_OUT, dom[v], v)
                 ELSE dom[v] = -2

\* a returned OUT call with an unreachable vertex and a vertex whose immediate
\* dominator is not one of its predecessors
C1_Witness ==
    /\ DomReturned /\ mode = IGRAPH_OUT /\ want.dom
    /\ \E v \in Vertices(graph) : dom[v] = -2
    /\ \E v \in Vertices(graph) :
          /\ dom[v] >= 0
          /\ EdgeCount(graph, dom[v], v, IGRAPH_OUT) = 0

TreeDescendants(t, u) == ReachWithin(t, u, IGRAPH_OUT, Vertices(t))

\* C2: in mode OUT the emitted tree has n vertices and reachable_count - 1
\* edges, is acyclic, leaves every unreachable vertex isolated, and u is a
\* proper ancestor of w in it exactly when u dominates w (dominance in the
\* flowgraph spanned by the vertices reachable from the root).
C2_DomTreeShape ==
    (DomReturned /\ mode = IGRAPH_OUT /\ want.domtree) =>
        LET reach == Reachable(graph, root, IGRAPH_OUT)
        IN /\ igraph_vcount(domtree) = igraph_vcount(graph)
           /\ igraph_ecount(domtree) = Cardinality(reach) - 1
           /\ \A v \in Vertices(domtree) :
                 v \notin UNION {TreeDescendants(domtree, x) : x \in Heads(domtree, IGRAPH_OUT, {v})}
           /\ \A v \in Vertices(graph) \ reach :
                 \A k \in 1..igraph_ecount(domtree) :
                     domtree.edges[k][1] # v /\ domtree.edges[k][2] # v
           /\ \A u, w \in Vertices(graph) :
                 u # w => (w \in TreeDescendants(domtree, u)
                             <=> Dominates(graph, root, IGRAPH_OUT, u, w))

\* a returned OUT call whose tree has a path of two edges and an isolate
C2_Witness ==
    /\ DomReturned /\ mode = IGRAPH_OUT /\ want.domtree
    /\ \E j, k \in 1..igraph_ecount(domtree) :
          domtree.edges[j][2] = domtree.edges[k][1]
    /\ Reachable(graph, root, IGRAPH_OUT) # Vertices(graph)

IsScenarioS1 == graph = GraphS1 /\ root = 0 /\ mode = IGRAPH_OUT /\ want.dom

\* C3 as stated: scenario S1 returns dom = [-1,0,0,0,0,0,3,3,0,0,7,0,0].
C3_ScenarioS1_AsStated ==
    (DomReturned /\ IsScenarioS1) =>
        dom = [v \in 0..12 |-> <<-1, 0, 0, 0, 0, 0, 3, 3, 0, 0, 7, 0, 0>>[v + 1]]

\* C3 amended: scenario S1 returns dom = [-1,0,0,0,0,0,3,3,0,0,7,0,4]; vertex
\* 12 has the single predecessor 4, which is its immediate dominator.
C3_ScenarioS1 ==
    (DomReturned /\ IsScenarioS1) =>
        dom = [v \in 0..12 |-> <<-1, 0, 0, 0, 0, 0, 3, 3, 0, 0, 7, 0, 4>>[v + 1]]

C3_Witness == DomReturned /\ IsScenarioS1 /\ dom[10] = 7

\* C4: leftout lists exactly the vertices not reachable from the root in the
\* chosen direction, once each, in increasing order; its length is n minus
\* the number of reachable vertices.
C4_LeftoutIsUnreachable ==
    (DomReturned /\ want.leftout) =>
        /\ leftout = SortedSeq(Vertices(graph) \ Reachable(graph, root, mode))
        /\ Len(leftout) = igraph_vcount(graph) - Cardinality(Reachable(graph, root, mode))
        /\ (graph = GraphS5 /\ root = 0 /\ mode = IGRAPH_OUT /\ want.dom =>
               dom = [v \in 0..2 |-> <<-1, 0, -2>>[v + 1]] /\ leftout = <<2>>)

\* scenario S5 returned with its one unreachable vertex
C4_Witness ==
    /\ DomReturned /\ want.leftout
    /\ graph = GraphS5 /\ root = 0 /\ mode = IGRAPH_OUT /\ want.dom
    /\ leftout = <<2>>

BadDomArguments ==
    \/ root < 0 \/ root >= igraph_vcount(graph)
    \/ ~igraph_is_directed(graph)
    \/ mode = IGRAPH_ALL

\* C5: with a root outside [0,n), an undirected graph or mode = ALL the call
\* fails with IGRAPH_EINVAL, and dom, leftout and domtree are as before the call.
C5_InvalidArguments ==
    (pc = "done" /\ BadDomArguments) =>
        /\ ret = IGRAPH_EINVAL
        /\ dom = DomInitial
        /\ leftout = LeftoutInitial
        /\ domtree = NoGraph

\* a failed call whose only bad argument is the mode
C5_Witness ==
    /\ pc = "done" /\ ret = IGRAPH_EINVAL
    /\ mode = IGRAPH_ALL /\ igraph_is_directed(graph)
    /\ root \in Vertices(graph) /\ want.dom

\* C6: mode IN returns the dom and leftout that mode OUT returns on the
\* reversed graph, and its tree edges are (v, dom[v]).
C6_InIsOutOnReverse ==
    (DomReturned /\ mode = IGRAPH_IN) =>
        LET r == igraph_dominator_tree(ReverseGraph(graph), root, want, IGRAPH_OUT,
                                       DomInitial, NoGraph, LeftoutInitial)
        IN /\ dom = r.dom
           /\ leftout = r.leftout
           /\ want.domtree =>
                 /\ domtree = ReverseGraph(r.domtree)
                 /\ want.dom => \A k \in 1..igraph_ecount(domtree) :
                                    domtree.edges[k][2] = dom[domtree.edges[k][1]]

\* a returned IN call on a graph that is not its own reverse, with a tree edge
C6_Witness ==
    /\ DomReturned /\ mode = IGRAPH_IN /\ want.dom /\ want.domtree
    /\ igraph_ecount(domtree) >= 2
    /\ Reachable(graph, root, IGRAPH_IN) # Reachable(graph, root, IGRAPH_OUT)

(***************************************************************************)
(* Specification CutSpec: one call of igraph_all_st_cuts with cuts and     *)
(* partition1s both given.                                                 *)
(***************************************************************************)
\* a path 0 -> 1 -> 3 with a dead end 0 -> 2
GraphSpur == igraph_create(<< <<0, 1>>, <<1, 3>>, <<0, 2>> >>, 4)

CutScenarioGraphs == {GraphS3, GraphS5, GraphLoop, GraphSpur}

NoDomState ==
    /\ root = 0 /\ mode = IGRAPH_OUT /\ want = WantNone /\ dw = NoScratch
    /\ dom = DomInitial /\ domtree = NoGraph /\ leftout = LeftoutInitial

CutInit ==
    /\ pc = "begin"
    /\ \E g \in EnumeratedGraphs \cup CutScenarioGraphs :
          /\ graph \in {g, Undirected(g)}
          /\ source \in Vertices(g)
          /\ target \in Vertices(g) \ {source}
    /\ S = NoScratch /\ T = NoScratch /\ frames = <<>> /\ pivot_ret = NoRet
    /\ partition1s = StaleList /\ cuts = StaleList
    /\ ret = NoRet
    /\ NoDomState
    /\ NoFlowState

Enumeration ==
    [pc |-> pc, g |-> graph, source |-> source, target |-> target, S |-> S, T |-> T,
     frames |-> frames, result |-> partition1s, ret |-> ret, pivot_ret |-> pivot_ret]

EnumerationUpdate(c) ==
    /\ pc' = c.pc
    /\ S' = c.S
    /\ T' = c.T
    /\ frames' = c.frames
    /\ pivot_ret' = c.pivot_ret
    /\ partition1s' = c.result
    /\ ret' = c.ret
    /\ UNCHANGED <<graph, source, target, cuts>>
    /\ UNCHANGED domVars
    /\ UNCHANGED flowVars

\* lines 1029-1060: the checks, the containers, the first call of the search
AllStCutsBegin ==
    /\ pc = "begin"
    /\ IF ~igraph_is_directed(graph)
       THEN /\ pc' = "done"
            /\ ret' = IGRAPH_UNIMPLEMENTED
            /\ UNCHANGED <<S, T, partition1s>>
       ELSE /\ pc' = "call"
            /\ ret' = ret
            /\ partition1s' = <<>>
            /\ S' = igraph_marked_queue_int_init(igraph_vcount(graph))
            /\ T' = igraph_estack_init(igraph_vcount(graph))
    /\ UNCHANGED <<graph, source, target, frames, pivot_ret, cuts>>
    /\ UNCHANGED domVars
    /\ UNCHANGED flowVars

ProvanShierEnter == pc = "call" /\ EnumerationUpdate(provan_shier_list_enter(Enumeration))

ProvanShierAfterLeft ==
    /\ pc = "return" /\ frames # <<>> /\ Last(frames).phase = "left"
    /\ EnumerationUpdate(provan_shier_list_after_left(Enumeration))

ProvanShierAfterRight ==
    /\ pc = "return" /\ frames # <<>> /\ Last(frames).phase = "right"
    /\ EnumerationUpdate(provan_shier_list_after_right(Enumeration))

\* lines 1062-1119: the search returned; turn the partitions into edge cuts
AllStCutsFinish ==
    /\ pc = "return" /\ frames = <<>>
    /\ pc' = "done"
    /\ ret' = IGRAPH_SUCCESS
    /\ cuts' = all_st_cuts_edges(graph, partition1s)
    /\ UNCHANGED <<graph, source, target, S, T, frames, pivot_ret, partition1s>>
    /\ UNCHANGED domVars
    /\ UNCHANGED flowVars

CutNext ==
    \/ AllStCutsBegin
    \/ ProvanShierEnter
    \/ ProvanShierAfterLeft
    \/ ProvanShierAfterRight
    \/ AllStCutsFinish

CutSpec == CutInit /\ [][CutNext]_vars

(***************************************************************************)
(* Reference definitions for the cut enumeration.                          *)
(***************************************************************************)
CutReturned == pc = "done" /\ ret = IGRAPH_SUCCESS

PartitionSets == {SeqSet(partition1s[k]) : k \in 1..Len(partition1s)}

CutSets == {SeqSet(cuts[k]) : k \in 1..Len(cuts)}

\* every vertex set with the source inside and the target outside
SourceSides(g, s, t) == {P \in SUBSET Vertices(g) : s \in P /\ t \notin P}

\* the ids of the edges leaving P
Crossing(g, P) ==
    {e \in 0..(igraph_ecount(g) - 1) : IGRAPH_FROM(g, e) \in P /\ IGRAPH_TO(g, e) \notin P}

\* P is the source side of a minimal (s,t) edge cut: every vertex of P is
\* reached from s inside P, some edge leaves P, and the head of every edge
\* leaving P reaches t outside P
IsMinimalCutSide(g, s, t, P) ==
    /\ s \in P /\ t \notin P
    /\ P \subseteq ReachWithin(g, s, IGRAPH_OUT, P)
    /\ Crossing(g, P) # {}
    /\ \A e \in Crossing(g, P) :
          IGRAPH_TO(g, e) \in ReachWithin(g, t, IGRAPH_IN, Vertices(g) \ P)

(***************************************************************************)
(* Claims about igraph_all_st_cuts, checked under CutSpec.                 *)
(***************************************************************************)

\* C7 as stated: the returned partitions are all the vertex sets that
\* contain the source and not the target.
C7_AllSourceSides_AsStated ==
    CutReturned => PartitionSets = SourceSides(graph, source, target)

\* C7 amended: the returned partitions are exactly the source sides of the
\* minimal (s,t) edge cuts.
C7_PartitionsAreMinimalCutSides ==
    CutReturned =>
        PartitionSets = {P \in SourceSides(graph, source, target) :
                            IsMinimalCutSide(graph, source, target, P)}

\* a returned call that listed several partitions but not every source side
C7_Witness ==
    /\ CutReturned
    /\ Cardinality(PartitionSets) >= 2
    /\ PartitionSets # SourceSides(graph, source, target)

\* C8: no two returned cuts are equal as edge sets and no two returned
\* partitions are equal as vertex sets.
C8_NoDuplicates ==
    CutReturned =>
        \A i, j \in 1..Len(cuts) :
            i < j => /\ SeqSet(cuts[i]) # SeqSet(cuts[j])
                     /\ SeqSet(partition1s[i]) # SeqSet(partition1s[j])

\* a returned call with at least three cuts
C8_Witness == CutReturned /\ Len(cuts) >= 3 /\ Len(partition1s) >= 3

IsScenarioS3 == graph = GraphS3 /\ source = 0 /\ target = 3

\* C9: scenario S3 returns exactly the partitions {0}, {0,1}, {0,2}, {0,1,2}
\* and exactly the edge cuts {0,1}, {0,3}, {1,2}, {2,3}.
C9_ScenarioS3 ==
    (CutReturned /\ IsScenarioS3) =>
        /\ Len(partition1s) = 4
        /\ PartitionSets = {{0}, {0, 1}, {0, 2}, {0, 1, 2}}
        /\ Len(cuts) = 4
        /\ CutSets = {{0, 1}, {0, 3}, {1, 2}, {2, 3}}

C9_Witness == CutReturned /\ IsScenarioS3 /\ Len(cuts) = 4

\* C10: cuts and partition1s have the same length and cuts[i] lists, in
\* increasing order, exactly the edges that leave partition1s[i].
C10_CutsMatchPartitions ==
    CutReturned =>
        /\ Len(cuts) = Len(partition1s)
        /\ \A i \in 1..Len(cuts) :
              cuts[i] = SortedSeq(Crossing(graph, SeqSet(partition1s[i])))

\* a returned call where a vertex of an earlier partition is outside a later
\* one, and the later cut has an edge into it
C10_Witness ==
    /\ CutReturned
    /\ \E i, j \in 1..Len(partition1s) :
          /\ i < j
          /\ \E v \in SeqSet(partition1s[i]) \ SeqSet(partition1s[j]) :
                \E k \in 1..Len(cuts[j]) : IGRAPH_TO(graph, cuts[j][k]) = v

(***************************************************************************)
(* Vectors over the edges (capacity, flow) are functions on 0..(m - 1).    *)
(***************************************************************************)
igraph_vector_size(v) == Cardinality(DOMAIN v)

igraph_vector_min(v) == Min({v[i] : i \in DOMAIN v})

(***************************************************************************)
(* igraph_reverse_residual_graph: an edge from -> to for every edge that   *)
(* carries flow and an edge to -> from for every edge that is not          *)
(* saturated.                                                              *)
(***************************************************************************)
\* a plausible slip: an edge is counted once however many edges it gives
RECURSIVE ReverseResidualCount_OncePerEdge(_, _, _, _)
ReverseResidualCount_OncePerEdge(g, cap, fl, i) ==
    IF i >= igraph_ecount(g) THEN 0
    ELSE (IF fl[i] > 0 \/ fl[i] < (IF cap # NULL THEN cap[i] ELSE 1) THEN 1 ELSE 0)
         + ReverseResidualCount_OncePerEdge(g, cap, fl, i + 1)

\* lines 228-236: the number of edges of the result
RECURSIVE ReverseResidualCount(_, _, _, _)
ReverseResidualCount(g, cap, fl, i) ==
    IF i >= igraph_ecount(g) THEN 0
    ELSE (IF fl[i] > 0 THEN 1 ELSE 0)
         + (IF fl[i] < (IF cap # NULL THEN cap[i] ELSE 1) THEN 1 ELSE 0)
         + ReverseResidualCount(g, cap, fl, i + 1)

\* a plausible slip: an unsaturated edge is entered in its own direction
RECURSIVE ReverseResidualFill_Forward(_, _, _, _)
ReverseResidualFill_Forward(g, cap, fl, i) ==
    IF i >= igraph_ecount(g) THEN <<>>
    ELSE (IF fl[i] > 0 THEN << <<IGRAPH_FROM(g, i), IGRAPH_TO(g, i)>> >> ELSE <<>>)
         \o (IF fl[i] < (IF cap # NULL THEN cap[i] ELSE 1)
             THEN << <<IGRAPH_FROM(g, i), IGRAPH_TO(g, i)>> >> ELSE <<>>)
         \o ReverseResidualFill_Forward(g, cap, fl, i + 1)

\* lines 240-252: the edges of the result
RECURSIVE ReverseResidualFill(_, _, _, _)
ReverseResidualFill(g, cap, fl, i) ==
    IF i >= igraph_ecount(g) THEN <<>>
    ELSE (IF fl[i] > 0 THEN << <<IGRAPH_FROM(g, i), IGRAPH_TO(g, i)>> >> ELSE <<>>)
         \o (IF fl[i] < (IF cap # NULL THEN cap[i] ELSE 1)
             THEN << <<IGRAPH_TO(g, i), IGRAPH_FROM(g, i)>> >> ELSE <<>>)
         \o ReverseResidualFill(g, cap, fl, i + 1)

\* lines 217-258; tmp has room for no_new_edges edges, zero where nothing is written
igraph_i_reverse_residual_graph(g, cap, fl) ==
    LET no_new_edges == ReverseResidualCount(g, cap, fl, 0)
        filled == ReverseResidualFill(g, cap, fl, 0)
    IN igraph_create([k \in 1..no_new_edges |->
                         IF k <= Len(filled) THEN filled[k] ELSE <<0, 0>>],
                     igraph_vcount(g))

\* lines 260-282
igraph_reverse_residual_graph(g, cap, fl) ==
    IF cap # NULL /\ igraph_vector_size(cap) # igraph_ecount(g)
    THEN [ret |-> IGRAPH_EINVAL, residual |-> NoGraph]
    ELSE IF igraph_vector_size(fl) # igraph_ecount(g)
    THEN [ret |-> IGRAPH_EINVAL, residual |-> NoGraph]
    ELSE [ret |-> IGRAPH_SUCCESS, residual |-> igraph_i_reverse_residual_graph(g, cap, fl)]

(***************************************************************************)
(* Collaborators of igraph_all_st_mincuts that live outside st-cuts.c,     *)
(* modelled by their contracts.                                            *)
(***************************************************************************)
\* flow into v minus flow out of v, over the edges i, i+1, ...
RECURSIVE NetInflow(_, _, _, _)
NetInflow(g, fl, v, i) ==
    IF i >= igraph_ecount(g) THEN 0
    ELSE (IF IGRAPH_TO(g, i) = v THEN fl[i] ELSE 0)
         - (IF IGRAPH_FROM(g, i) = v THEN fl[i] ELSE 0)
         + NetInflow(g, fl, v, i + 1)

\* the edges i, i+1, ... that carry flow
RECURSIVE FlowEdges(_, _, _)
FlowEdges(g, fl, i) ==
    IF i >= igraph_ecount(g) THEN <<>>
    ELSE (IF fl[i] > 0 THEN <<g.edges[i + 1]>> ELSE <<>>) \o FlowEdges(g, fl, i + 1)

\* no closed walk carries flow
IsAcyclicFlow(g, fl) ==
    LET carrying == igraph_create(FlowEdges(g, fl, 0), igraph_vcount(g))
    IN \A i \in 0..(igraph_ecount(g) - 1) :
           fl[i] > 0 =>
               IGRAPH_FROM(g, i) \notin
                   ReachGrow(carrying, IGRAPH_OUT, 0..(igraph_vcount(g) - 1), {IGRAPH_TO(g, i)})

\* capacity of edge i as igraph_maxflow reads it: 1 without a capacity vector
CapacityOf(cap, i) == IF cap # NULL THEN cap[i] ELSE 1

\* the integer flows from s to t within the capacities, without flow cycles
Flows(g, cap, s, t) ==
    {fl \in [0..(igraph_ecount(g) - 1) ->
                0..Max({CapacityOf(cap, i) : i \in 0..(igraph_ecount(g) - 1)} \cup {0})] :
        /\ \A i \in 0..(igraph_ecount(g) - 1) : fl[i] <= CapacityOf(cap, i)
        /\ \A v \in 0..(igraph_vcount(g) - 1) : v \in {s, t} \/ NetInflow(g, fl, v, 0) = 0
        /\ IsAcyclicFlow(g, fl)}

\* igraph_maxflow with flow requested: the value and one maximum flow.  The
\* flow is any of the maximum flows without flow cycles.
igraph_maxflow(g, cap, s, t) ==
    LET fls == Flows(g, cap, s, t)
    IN {[value |-> NetInflow(g, fl, t, 0), flow |-> fl] :
           fl \in {f \in fls : \A h \in fls : NetInflow(g, h, t, 0) <= NetInflow(g, f, t, 0)}}

\* igraph_connected_components, IGRAPH_STRONG: the strongly connected
\* components; the ids 0..(no - 1) are given in any order
StrongComponents(g) ==
    {ReachGrow(g, IGRAPH_OUT, 0..(igraph_vcount(g) - 1), {v})
         \cap ReachGrow(g, IGRAPH_IN, 0..(igraph_vcount(g) - 1), {v}) :
        v \in 0..(igraph_vcount(g) - 1)}

igraph_connected_components(g) ==
    LET comps == StrongComponents(g)
        no == Cardinality(comps)
    IN {[v \in 0..(igraph_vcount(g) - 1) |-> id[CHOOSE c \in comps : v \in c]] :
           id \in {f \in [comps -> 0..(no - 1)] : \A c, d \in comps : f[c] = f[d] => c = d}}

\* igraph_contract_vertices: every endpoint replaced by its image; the
\* vertex count is the largest image plus one
igraph_contract_vertices(g, mapping) ==
    igraph_create([k \in DOMAIN g.edges |-> <<mapping[g.edges[k][1]], mapping[g.edges[k][2]]>>],
                  Max({mapping[v] : v \in DOMAIN mapping} \cup {-1}) + 1)

\* igraph_simplify, multiple and loops: one edge for every pair of distinct
\* vertices that has one, ordered by (from, to)
RECURSIVE SimplifiedEdges(_, _)
SimplifiedEdges(g, p) ==
    IF p >= igraph_vcount(g) * igraph_vcount(g) THEN <<>>
    ELSE (IF PairOf(igraph_vcount(g), p) \in SeqSet(g.edges)
             /\ PairOf(igraph_vcount(g), p)[1] # PairOf(igraph_vcount(g), p)[2]
          THEN <<PairOf(igraph_vcount(g), p)>> ELSE <<>>)
         \o SimplifiedEdges(g, p + 1)

igraph_simplify(g) == igraph_create(SimplifiedEdges(g, 0), igraph_vcount(g))

\* igraph_degree, all vertices, loops counted
igraph_degree(g, m) ==
    [v \in 0..(igraph_vcount(g) - 1) |->
        Cardinality({e \in 0..(igraph_ecount(g) - 1) :
                        IF m = IGRAPH_OUT THEN IGRAPH_FROM(g, e) = v ELSE IGRAPH_TO(g, e) = v})]

\* igraph_bfs from one root along the edges in direction m, restricted to a vertex list
igraph_bfs_root(g, r, m, restricted) ==
    LET n == igraph_vcount(g)
        added == [v \in 0..(n - 1) |-> v \notin SeqSet(restricted)]
        ord == BfsRoots(igraph_adjlist_init(g, m), <<r>>, 1, added, <<>>)
    IN [i \in 0..(n - 1) |-> IF i < Len(ord) THEN ord[i + 1] ELSE -1]

(***************************************************************************)
(* igraph_i_all_st_mincuts_minimal and igraph_i_all_st_mincuts_pivot.      *)
(***************************************************************************)
\* lines 1158-1161
RECURSIVE MinimalDecrement(_, _, _)
MinimalDecrement(indeg, neis, j) ==
    IF j >= Len(neis) THEN indeg
    ELSE MinimalDecrement([indeg EXCEPT ![neis[j + 1]] = @ - 1], neis, j + 1)

\* lines 1153-1163: the edges that leave a vertex that is not active do not count
RECURSIVE MinimalInactive(_, _, _, _, _)
MinimalInactive(Sbar, active, invmap, indeg, i) ==
    IF i >= igraph_vcount(Sbar) THEN indeg
    ELSE MinimalInactive(Sbar, active, invmap,
                         IF ~active[invmap[i]]
                         THEN MinimalDecrement(indeg, igraph_neighbors(Sbar, i, IGRAPH_OUT), 0)
                         ELSE indeg,
                         i + 1)

\* lines 1165-1177
MinimalCollect(Sbar, active, invmap, indeg) ==
    Marked([i \in 0..(igraph_vcount(Sbar) - 1) |-> active[invmap[i]] /\ indeg[i] = 0],
           igraph_vcount(Sbar), 0)

\* lines 1134-1187
igraph_i_all_st_mincuts_minimal(Sbar, active, invmap) ==
    MinimalCollect(Sbar, active, invmap,
                   MinimalInactive(Sbar, active, invmap, igraph_degree(Sbar, IGRAPH_IN), 0))

\* a plausible slip: the target is not excluded from the pivots
RECURSIVE MincutsPivotSearch_NoTargetTest(_, _, _, _, _)
MincutsPivotSearch_NoTargetTest(M, Sbar_invmap, Tq, tgt, i) ==
    IF i >= Len(M) THEN i
    ELSE IF ~igraph_estack_iselement(Tq, Sbar_invmap[M[i + 1]])
    THEN i
    ELSE MincutsPivotSearch_NoTargetTest(M, Sbar_invmap, Tq, tgt, i + 1)

\* lines 1251-1257: the first minimal element that is not the target and not in T
RECURSIVE MincutsPivotSearch(_, _, _, _, _)
MincutsPivotSearch(M, Sbar_invmap, Tq, tgt, i) ==
    IF i >= Len(M) THEN i
    ELSE IF Sbar_invmap[M[i + 1]] # tgt /\ ~igraph_estack_iselement(Tq, Sbar_invmap[M[i + 1]])
    THEN i
    ELSE MincutsPivotSearch(M, Sbar_invmap, Tq, tgt, i + 1)

\* lines 1271-1279: the vertices of the search order that are not in T
RECURSIVE MincutsIsv(_, _, _, _)
MincutsIsv(Isv_min, Tq, no_of_nodes, j) ==
    IF j >= no_of_nodes THEN <<>>
    ELSE IF Isv_min[j] < 0 THEN <<>>
    ELSE (IF ~igraph_estack_iselement(Tq, Isv_min[j]) THEN <<Isv_min[j]>> ELSE <<>>)
         \o MincutsIsv(Isv_min, Tq, no_of_nodes, j + 1)

\* lines 1249-1282: i is where the search over M stopped
MincutsPivotFound(g, Tq, v0, keep, Sbar_invmap, M, i) ==
    IF i # Len(M)
    THEN [ret |-> IGRAPH_SUCCESS,
          v |-> Sbar_invmap[M[i + 1]],
          Isv |-> MincutsIsv(igraph_bfs_root(g, Sbar_invmap[M[i + 1]], IGRAPH_IN, keep),
                             Tq, igraph_vcount(g), 0)]
    ELSE [ret |-> IGRAPH_SUCCESS, v |-> v0, Isv |-> <<>>]

\* lines 1241-1257
MincutsPivotWithSbar(g, Tq, tgt, v0, keep, Sbar, active) ==
    MincutsPivotFound(g, Tq, v0, keep, Sbar.invmap,
                      igraph_i_all_st_mincuts_minimal(Sbar.graph, active, Sbar.invmap),
                      MincutsPivotSearch(
                          igraph_i_all_st_mincuts_minimal(Sbar.graph, active, Sbar.invmap),
                          Sbar.invmap, Tq, tgt, 0))

\* lines 1220-1239
MincutsPivotWithKeep(g, Tq, tgt, v0, keep, active) ==
    MincutsPivotWithSbar(g, Tq, tgt, v0, keep, igraph_induced_subgraph_map(g, keep), active)

\* lines 1193-1292; v0 is the caller's *v, Isv is empty on entry, source is not used
igraph_i_all_st_mincuts_pivot(g, Sq, Tq, src, tgt, v0, active) ==
    IF igraph_marked_queue_int_size(Sq) = igraph_vcount(g)
    THEN [ret |-> IGRAPH_SUCCESS, v |-> v0, Isv |-> <<>>]
    ELSE MincutsPivotWithKeep(
             g, Tq, tgt, v0,
             Marked([i \in 0..(igraph_vcount(g) - 1) |->
                        ~igraph_marked_queue_int_iselement(Sq, i)], igraph_vcount(g), 0),
             active)

\* lines 937-959 with the pivot of igraph_all_st_mincuts and its argument;
\* the enumeration carries the active vertices in the field pivot_arg
provan_shier_list_enter_mincuts(c) ==
    provan_shier_list_branch(
        c, igraph_i_all_st_mincuts_pivot(c.g, c.S, c.T, c.source, c.target, 0, c.pivot_arg))

(***************************************************************************)
(* igraph_all_st_mincuts.                                                  *)
(***************************************************************************)
\* lines 1368-1384: the error checks, in their order
igraph_all_st_mincuts_check(g, s, t, cap) ==
    IF ~igraph_is_directed(g) THEN IGRAPH_UNIMPLEMENTED
    ELSE IF s < 0 \/ s >= igraph_vcount(g) THEN IGRAPH_EINVAL
    ELSE IF t < 0 \/ t >= igraph_vcount(g) THEN IGRAPH_EINVAL
    ELSE IF s = t THEN IGRAPH_EINVAL
    ELSE IF cap # NULL /\ igraph_vector_min(cap) <= 0 THEN IGRAPH_EINVAL
    ELSE IGRAPH_SUCCESS

\* lines 1426-1443: the components that an edge with flow touches
RECURSIVE ActiveLoop(_, _, _, _, _)
ActiveLoop(g, fl, ntol, VE1, i) ==
    IF i >= igraph_ecount(g) THEN VE1
    ELSE ActiveLoop(g, fl, ntol,
                    IF fl[i] > 0
                    THEN [VE1 EXCEPT ![ntol[IGRAPH_FROM(g, i)]] = TRUE,
                                     ![ntol[IGRAPH_TO(g, i)]] = TRUE]
                    ELSE VE1,
                    i + 1)

\* lines 1477-1483: for every component the chain of its vertices
RECURSIVE RevmapLoop(_, _, _, _)
RevmapLoop(ntol, no_of_nodes, i, r) ==
    IF i >= no_of_nodes THEN r
    ELSE RevmapLoop(ntol, no_of_nodes, i + 1,
                    [revmap_next |-> [r.revmap_next EXCEPT ![i] = r.revmap_ptr[ntol[i]]],
                     revmap_ptr |-> [r.revmap_ptr EXCEPT ![ntol[i]] = i + 1]])

\* lines 1496-1501
RECURSIVE RevmapChain(_, _)
RevmapChain(r, ovtx) ==
    IF ovtx = 0 THEN <<>>
    ELSE <<ovtx - 1>> \o RevmapChain(r, r.revmap_next[ovtx - 1])

\* lines 1494-1502
RECURSIVE SupercutLoop(_, _, _)
SupercutLoop(r, supercut, j) ==
    IF j >= Len(supercut) THEN <<>>
    ELSE RevmapChain(r, r.revmap_ptr[supercut[j + 1]]) \o SupercutLoop(r, supercut, j + 1)

\* lines 1489-1507
RECURSIVE PartitionsLoop(_, _, _)
PartitionsLoop(r, closed, i) ==
    IF i >= Len(closed) THEN <<>>
    ELSE <<SupercutLoop(r, closed[i + 1], 0)>> \o PartitionsLoop(r, closed, i + 1)

\* lines 1475-1507
all_st_mincuts_partitions(g, res, ntol, closed) ==
    PartitionsLoop(RevmapLoop(ntol, igraph_vcount(g), 0,
                              [revmap_ptr |-> Vec(igraph_vcount(res), 0),
                               revmap_next |-> Vec(igraph_vcount(g), 0)]),
                   closed, 0)

\* a plausible slip: the edges that enter the part are collected
RECURSIVE MincutFill_Entering(_, _, _, _, _)
MincutFill_Entering(g, fl, memb, i, j) ==
    IF j >= igraph_ecount(g) THEN <<>>
    ELSE (IF fl[j] > 0 /\ memb[IGRAPH_TO(g, j)] = i + 1 /\ memb[IGRAPH_FROM(g, j)] # i + 1
          THEN <<j>> ELSE <<>>)
         \o MincutFill_Entering(g, fl, memb, i, j + 1)

\* lines 1530-1538: the edges with flow that leave the part marked i + 1
RECURSIVE MincutFill(_, _, _, _, _)
MincutFill(g, fl, memb, i, j) ==
    IF j >= igraph_ecount(g) THEN <<>>
    ELSE (IF fl[j] > 0 /\ memb[IGRAPH_FROM(g, j)] = i + 1 /\ memb[IGRAPH_TO(g, j)] # i + 1
          THEN <<j>> ELSE <<>>)
         \o MincutFill(g, fl, memb, i, j + 1)

\* lines 1521-1541
RECURSIVE MincutsLoop(_, _, _, _, _, _)
MincutsLoop(g, fl, parts, i, memb, acc) ==
    IF i >= Len(parts) THEN acc
    ELSE MincutsLoop(g, fl, parts, i + 1, MarkElements(memb, parts[i + 1], 0, i + 1),
                     Append(acc, MincutFill(g, fl, MarkElements(memb, parts[i + 1], 0, i + 1),
                                            i, 0)))

\* lines 1514-1545
all_st_mincuts_edges(g, fl, parts) ==
    MincutsLoop(g, fl, parts, 0, Vec(igraph_vcount(g), 0), <<>>)

(***************************************************************************)
(* Specification MinCutSpec: one call of igraph_all_st_mincuts with value, *)
(* cuts and partition1s all given.                                         *)
(***************************************************************************)
\* the 5-vertex graph in which vertex 2 is reached from vertex 1 through
\* vertex 3, which carries no flow
GraphBypass ==
    igraph_create(<< <<0, 1>>, <<0, 2>>, <<1, 4>>, <<2, 3>>, <<2, 4>>, <<3, 1>> >>, 5)

\* the 6-vertex graph in which vertex 3 is reached from vertex 2 through
\* vertex 4, which carries no flow, and vertex 1 lies between 0 and 3
GraphDetour ==
    igraph_create(<< <<0, 1>>, <<0, 2>>, <<1, 3>>, <<2, 4>>, <<2, 5>>, <<3, 5>>, <<4, 3>> >>, 6)

\* capacity vectors of the valid calls: none, or positive entries
CapacityValues == {1, 2}

CapacityVectors(g) ==
    {NULL} \cup (IF igraph_ecount(g) = 0 THEN {}
                 ELSE [0..(igraph_ecount(g) - 1) -> CapacityValues])

\* a capacity vector with an entry that is not positive
BadCapacity(g) == [i \in 0..(igraph_ecount(g) - 1) |-> IF i = 0 THEN 0 ELSE 1]

MinCutInputs ==
    \/ \E g \in EnumeratedGraphs :
          /\ graph = g
          /\ source \in Vertices(g)
          /\ target \in Vertices(g) \ {source}
          /\ capacity \in CapacityVectors(g)
    \/ \E g \in EnumeratedGraphs :
          /\ graph \in {g, Undirected(g)}
          /\ source \in -1..igraph_vcount(g)
          /\ target \in -1..igraph_vcount(g)
          /\ capacity \in {NULL} \cup (IF igraph_ecount(g) = 0 THEN {} ELSE {BadCapacity(g)})
    \/ /\ graph \in {GraphS3, GraphBypass, GraphDetour}
       /\ source = 0
       /\ target = igraph_vcount(graph) - 1
       /\ capacity \in {NULL, Vec(igraph_ecount(graph), 1)}

MinCutInit ==
    /\ pc = "mincuts_begin"
    /\ MinCutInputs
    /\ value = 0 /\ flow = <<>>
    /\ residual = NoGraph /\ NtoL = <<>> /\ VE1bool = <<>> /\ closedsets = <<>>
    /\ S = NoScratch /\ T = NoScratch /\ frames = <<>> /\ pivot_ret = NoRet
    /\ partition1s = StaleList /\ cuts = StaleList
    /\ ret = NoRet
    /\ graphbar = NoGraph /\ residual_capacity = <<>>
    /\ NoDomState

\* lines 1368-1384: a failed check ends the call with nothing touched
AllStMincutsReject ==
    /\ pc = "mincuts_begin"
    /\ igraph_all_st_mincuts_check(graph, source, target, capacity) # IGRAPH_SUCCESS
    /\ pc' = "done"
    /\ ret' = igraph_all_st_mincuts_check(graph, source, target, capacity)
    /\ UNCHANGED <<graph, source, target, S, T, frames, pivot_ret, partition1s, cuts>>
    /\ UNCHANGED flowVars
    /\ UNCHANGED domVars

\* lines 1386-1469: the maximum flow, the reverse residual graph shrunk to
\* its strongly connected components, the active vertices, the containers
AllStMincutsPrepare(mf, rr, membership) ==
    /\ value' = mf.value
    /\ flow' = mf.flow
    /\ NtoL' = membership
    /\ residual' = igraph_simplify(igraph_contract_vertices(rr, membership))
    /\ VE1bool' = ActiveLoop(graph, mf.flow, membership,
                             Vec(Cardinality(StrongComponents(rr)), FALSE), 0)
    /\ cuts' = <<>>
    /\ partition1s' = <<>>
    /\ S' = igraph_marked_queue_int_init(igraph_vcount(graph))
    /\ T' = igraph_estack_init(igraph_vcount(graph))
    /\ closedsets' = <<>>
    /\ pc' = "mincuts_call"
    /\ ret' = ret
    /\ UNCHANGED <<graph, source, target, frames, pivot_ret, capacity, graphbar, residual_capacity>>
    /\ UNCHANGED domVars

AllStMincutsBegin ==
    /\ pc = "mincuts_begin"
    /\ igraph_all_st_mincuts_check(graph, source, target, capacity) = IGRAPH_SUCCESS
    /\ \E mf \in igraph_maxflow(graph, capacity, source, target) :
          \E membership \in igraph_connected_components(
                                igraph_reverse_residual_graph(graph, capacity, mf.flow).residual) :
              AllStMincutsPrepare(mf, igraph_reverse_residual_graph(graph, capacity, mf.flow).residual,
                                  membership)

\* the call of igraph_provan_shier_list at lines 1470-1473
MinEnumeration ==
    [pc |-> IF pc = "mincuts_call" THEN "call" ELSE "return",
     g |-> residual, source |-> NtoL[source], target |-> NtoL[target],
     S |-> S, T |-> T, frames |-> frames, result |-> closedsets, ret |-> ret,
     pivot_ret |-> pivot_ret, pivot_arg |-> VE1bool]

MinEnumerationUpdate(c) ==
    /\ pc' = (IF c.pc = "call" THEN "mincuts_call"
              ELSE IF c.pc = "return" THEN "mincuts_return" ELSE "done")
    /\ S' = c.S
    /\ T' = c.T
    /\ frames' = c.frames
    /\ pivot_ret' = c.pivot_ret
    /\ closedsets' = c.result
    /\ ret' = c.ret
    /\ UNCHANGED <<graph, source, target, partition1s, cuts>>
    /\ UNCHANGED <<capacity, flow, value, residual, NtoL, VE1bool, graphbar, residual_capacity>>
    /\ UNCHANGED domVars

MincutsEnter ==
    pc = "mincuts_call" /\ MinEnumerationUpdate(provan_shier_list_enter_mincuts(MinEnumeration))

MincutsAfterLeft ==
    /\ pc = "mincuts_return" /\ frames # <<>> /\ Last(frames).phase = "left"
    /\ MinEnumerationUpdate(provan_shier_list_after_left(MinEnumeration))

MincutsAfterRight ==
    /\ pc = "mincuts_return" /\ frames # <<>> /\ Last(frames).phase = "right"
    /\ MinEnumerationUpdate(provan_shier_list_after_right(MinEnumeration))

\* lines 1475-1562: the search returned; closed sets to partitions to cuts
AllStMincutsFinish ==
    /\ pc = "mincuts_return" /\ frames = <<>>
    /\ pc' = "done"
    /\ ret' = IGRAPH_SUCCESS
    /\ partition1s' = all_st_mincuts_partitions(graph, residual, NtoL, closedsets)
    /\ cuts' = all_st_mincuts_edges(graph, flow,
                                    all_st_mincuts_partitions(graph, residual, NtoL, closedsets))
    /\ UNCHANGED <<graph, source, target, S, T, frames, pivot_ret>>
    /\ UNCHANGED <<capacity, flow, value, residual, NtoL, VE1bool, closedsets,
                   graphbar, residual_capacity>>
    /\ UNCHANGED domVars

MinCutNext ==
    \/ AllStMincutsReject
    \/ AllStMincutsBegin
    \/ MincutsEnter
    \/ MincutsAfterLeft
    \/ MincutsAfterRight
    \/ AllStMincutsFinish

MinCutSpec == MinCutInit /\ [][MinCutNext]_vars

(***************************************************************************)
(* Specification StCutsSpec: one call of either facade.                    *)
(***************************************************************************)
\* igraph_all_st_cuts is also called with the source as the target
CutArgInit ==
    /\ pc = "begin"
    /\ \E g \in EnumeratedGraphs \cup CutScenarioGraphs :
          /\ graph \in {g, Undirected(g)}
          /\ source \in Vertices(g)
          /\ target \in Vertices(g)
    /\ S = NoScratch /\ T = NoScratch /\ frames = <<>> /\ pivot_ret = NoRet
    /\ partition1s = StaleList /\ cuts = StaleList
    /\ ret = NoRet
    /\ NoDomState
    /\ NoFlowState

StCutsInit == CutArgInit \/ MinCutInit

StCutsNext == CutNext \/ MinCutNext

StCutsSpec == StCutsInit /\ [][StCutsNext]_vars

(***************************************************************************)
(* Reference definitions for the minimum cuts.                             *)
(***************************************************************************)
\* a returned call of igraph_all_st_mincuts
MincutsReturned == pc = "done" /\ ret = IGRAPH_SUCCESS /\ NtoL # <<>>

\* total capacity of the edges cut[k], cut[k + 1], ...
RECURSIVE CutCapacity(_, _, _)
CutCapacity(cap, cut, k) ==
    IF k > Len(cut) THEN 0
    ELSE CapacityOf(cap, cut[k]) + CutCapacity(cap, cut, k + 1)

\* the (s,t) edge cuts: the edge sets that leave a vertex set with s inside
\* and t outside
EdgeCuts(g, s, t) == {Crossing(g, P) : P \in SourceSides(g, s, t)}

\* the (s,t) edge cuts of minimum total capacity
MinimumCuts(g, cap, s, t) ==
    {C \in EdgeCuts(g, s, t) :
        \A D \in EdgeCuts(g, s, t) :
            CutCapacity(cap, SortedSeq(C), 1) <= CutCapacity(cap, SortedSeq(D), 1)}

(***************************************************************************)
(* Claims about the two facades.                                           *)
(***************************************************************************)

UnimplementedArguments == ~igraph_is_directed(graph)

InvalidArguments ==
    \/ source \notin Vertices(graph)
    \/ target \notin Vertices(graph)
    \/ source = target

\* C12 as stated: a call of either facade on an undirected graph ends with
\* IGRAPH_UNIMPLEMENTED, a call with the source or the target out of range
\* or with the source as the target ends with IGRAPH_EINVAL, and in these
\* cases no cut is enumerated.
C12_ArgumentsRefused_AsStated ==
    pc = "done" =>
        /\ UnimplementedArguments => ret = IGRAPH_UNIMPLEMENTED
        /\ (~UnimplementedArguments /\ InvalidArguments) => ret = IGRAPH_EINVAL
        /\ (UnimplementedArguments \/ InvalidArguments) =>
               partition1s = StaleList /\ cuts = StaleList

\* C13 as stated: every edge cut returned by igraph_all_st_mincuts has
\* total capacity equal to the value reported.
C13_CutCapacityIsValue_AsStated ==
    MincutsReturned => \A k \in 1..Len(cuts) : CutCapacity(capacity, cuts[k], 1) = value

\* C14 as stated: the edge cuts returned by igraph_all_st_mincuts are
\* exactly the (s,t) edge cuts of minimum total capacity, each listed once.
C14_AllMinimumCuts_AsStated ==
    MincutsReturned =>
        /\ CutSets = MinimumCuts(graph, capacity, source, target)
        /\ Cardinality(CutSets) = Len(cuts)

IsScenarioS4 ==
    /\ graph = GraphS3 /\ source = 0 /\ target = 3
    /\ \A e \in 0..3 : CapacityOf(capacity, e) = 1

\* C15 as stated: scenario S4 reports value 2, exactly the cuts {0,1} and
\* {2,3} and exactly the partitions {0} and {0,1,2}.
C15_ScenarioS4_AsStated ==
    (MincutsReturned /\ IsScenarioS4) =>
        /\ value = 2
        /\ CutSets = {{0, 1}, {2, 3}}
        /\ PartitionSets = {{0}, {0, 1, 2}}

\* C15 amended: scenario S4 reports value 2, exactly the four cuts {0,1},
\* {0,3}, {1,2}, {2,3} and exactly the four partitions {0}, {0,1}, {0,2},
\* {0,1,2}.
C15_ScenarioS4 ==
    (MincutsReturned /\ IsScenarioS4) =>
        /\ value = 2
        /\ Len(cuts) = 4
        /\ CutSets = {{0, 1}, {0, 3}, {1, 2}, {2, 3}}
        /\ Len(partition1s) = 4
        /\ PartitionSets = {{0}, {0, 1}, {0, 2}, {0, 1, 2}}

C15_Witness == MincutsReturned /\ IsScenarioS4 /\ Len(cuts) = 4

(***************************************************************************)
(* igraph_integer_t, scaled down to IntegerBits bits, and the limits of    *)
(* the graph container that follow from it.                                *)
(***************************************************************************)
IntegerBits == 6

IGRAPH_INTEGER_MAX == 2 ^ (IntegerBits - 1) - 1
IGRAPH_INTEGER_MIN == -(2 ^ (IntegerBits - 1))
IGRAPH_VCOUNT_MAX == IGRAPH_INTEGER_MAX - 1
IGRAPH_ECOUNT_MAX == IGRAPH_INTEGER_MAX \div 2

IsRepresentable(x) == IGRAPH_INTEGER_MIN <= x /\ x <= IGRAPH_INTEGER_MAX

\* IGRAPH_SAFE_MULT and IGRAPH_SAFE_ADD: the result, or IGRAPH_EOVERFLOW
\* when it cannot be represented
IGRAPH_SAFE_MULT(a, b) ==
    IF IsRepresentable(a * b) THEN [ret |-> IGRAPH_SUCCESS, res |-> a * b]
    ELSE [ret |-> IGRAPH_EOVERFLOW, res |-> 0]

IGRAPH_SAFE_ADD(a, b) ==
    IF IsRepresentable(a + b) THEN [ret |-> IGRAPH_SUCCESS, res |-> a + b]
    ELSE [ret |-> IGRAPH_EOVERFLOW, res |-> 0]

(***************************************************************************)
(* igraph_even_tarjan_reduction.                                           *)
(***************************************************************************)
\* line 92: no_of_edges * 2 is not checked; where the product cannot be
\* represented the multiplication is undefined and may leave any value
EvenTarjanProduct(no_of_edges) ==
    IF IsRepresentable(no_of_edges * 2) THEN {no_of_edges * 2}
    ELSE IGRAPH_INTEGER_MIN..IGRAPH_INTEGER_MAX

\* lines 116-122: one edge i -> i + n for every vertex
RECURSIVE EvenTarjanInner(_, _)
EvenTarjanInner(no_of_nodes, i) ==
    IF i >= no_of_nodes THEN <<>>
    ELSE << <<i, i + no_of_nodes>> >> \o EvenTarjanInner(no_of_nodes, i + 1)

\* a plausible slip: the second edge repeats the direction of the first
RECURSIVE EvenTarjanOuter_OneDirection(_, _)
EvenTarjanOuter_OneDirection(g, i) ==
    IF i >= igraph_ecount(g) THEN <<>>
    ELSE << <<IGRAPH_FROM(g, i) + igraph_vcount(g), IGRAPH_TO(g, i)>>,
            <<IGRAPH_FROM(g, i) + igraph_vcount(g), IGRAPH_TO(g, i)>> >>
         \o EvenTarjanOuter_OneDirection(g, i + 1)

\* lines 126-132: two edges for every edge, from'' -> to' and to'' -> from'
RECURSIVE EvenTarjanOuter(_, _)
EvenTarjanOuter(g, i) ==
    IF i >= igraph_ecount(g) THEN <<>>
    ELSE << <<IGRAPH_FROM(g, i) + igraph_vcount(g), IGRAPH_TO(g, i)>>,
            <<IGRAPH_TO(g, i) + igraph_vcount(g), IGRAPH_FROM(g, i)>> >>
         \o EvenTarjanOuter(g, i + 1)

\* a plausible slip: the outer edges get the edge count for a capacity
EvenTarjanCapacity_EdgeCount(g) ==
    Repeat(1, igraph_vcount(g)) \o Repeat(igraph_ecount(g), 2 * igraph_ecount(g))

\* lines 119-121 and 133-136: the capacities in the order they are written
EvenTarjanCapacity(g) ==
    Repeat(1, igraph_vcount(g)) \o Repeat(igraph_vcount(g), 2 * igraph_ecount(g))

\* a vector resized to size entries (old entries kept, new ones zero) and
\* then overwritten from its start with the entries of written
ResizeAndWrite(old, size, written) ==
    [k \in 0..(size - 1) |->
        IF k < Len(written) THEN written[k + 1]
        ELSE IF k \in DOMAIN old THEN old[k] ELSE 0]

\* an edge vector with room for size edges, zero where nothing is written
EdgeVector(size, written) ==
    [k \in 1..size |-> IF k <= Len(written) THEN written[k] ELSE <<0, 0>>]

\* lines 106-145, with the sizes settled
EvenTarjanBuild(g, cap, new_no_of_nodes, new_no_of_edges) ==
    [ret |-> IGRAPH_SUCCESS,
     graphbar |-> igraph_create(
                      EdgeVector(new_no_of_edges,
                                 EvenTarjanInner(igraph_vcount(g), 0) \o EvenTarjanOuter(g, 0)),
                      new_no_of_nodes),
     capacity |-> IF cap # NULL
                  THEN ResizeAndWrite(cap, new_no_of_edges, EvenTarjanCapacity(g))
                  ELSE cap]

\* a plausible slip: the result is sized as the doc comment has it, twice
\* the edges of the input
EvenTarjanSizes_Doubled(g, product) ==
    IF IGRAPH_SAFE_MULT(igraph_vcount(g), 2).ret # IGRAPH_SUCCESS
    THEN [ret |-> IGRAPH_EOVERFLOW, new_no_of_nodes |-> 0, new_no_of_edges |-> 0]
    ELSE [ret |-> IGRAPH_SUCCESS,
          new_no_of_nodes |-> IGRAPH_SAFE_MULT(igraph_vcount(g), 2).res,
          new_no_of_edges |-> product]

\* lines 98-99: the checked sizes; product is new_no_of_edges of line 92
EvenTarjanSizes(g, product) ==
    IF IGRAPH_SAFE_MULT(igraph_vcount(g), 2).ret # IGRAPH_SUCCESS
    THEN [ret |-> IGRAPH_EOVERFLOW, new_no_of_nodes |-> 0, new_no_of_edges |-> 0]
    ELSE IF IGRAPH_SAFE_ADD(product, igraph_vcount(g)).ret # IGRAPH_SUCCESS
    THEN [ret |-> IGRAPH_EOVERFLOW, new_no_of_nodes |-> 0, new_no_of_edges |-> 0]
    ELSE [ret |-> IGRAPH_SUCCESS,
          new_no_of_nodes |-> IGRAPH_SAFE_MULT(igraph_vcount(g), 2).res,
          new_no_of_edges |-> IGRAPH_SAFE_ADD(product, igraph_vcount(g)).res]

\* a plausible slip: the edge count is not compared with IGRAPH_ECOUNT_MAX
EvenTarjanChecked_NoLimit(g, cap, sizes) ==
    IF sizes.ret # IGRAPH_SUCCESS
    THEN [ret |-> sizes.ret, graphbar |-> NoGraph, capacity |-> cap]
    ELSE EvenTarjanBuild(g, cap, sizes.new_no_of_nodes, sizes.new_no_of_edges)

\* lines 98-145, with the sizes computed
EvenTarjanChecked(g, cap, sizes) ==
    IF sizes.ret # IGRAPH_SUCCESS
    THEN [ret |-> sizes.ret, graphbar |-> NoGraph, capacity |-> cap]
    ELSE IF sizes.new_no_of_edges > IGRAPH_ECOUNT_MAX
    THEN [ret |-> IGRAPH_EOVERFLOW, graphbar |-> NoGraph, capacity |-> cap]
    ELSE EvenTarjanBuild(g, cap, sizes.new_no_of_nodes, sizes.new_no_of_edges)

\* lines 85-146
igraph_even_tarjan_reduction(g, cap, product) ==
    EvenTarjanChecked(g, cap, EvenTarjanSizes(g, product))

(***************************************************************************)
(* igraph_residual_graph.                                                  *)
(***************************************************************************)
\* lines 160-164: the number of edges of the result
RECURSIVE ResidualCount(_, _, _, _)
ResidualCount(g, cap, fl, i) ==
    IF i >= igraph_ecount(g) THEN 0
    ELSE (IF fl[i] < cap[i] THEN 1 ELSE 0) + ResidualCount(g, cap, fl, i + 1)

\* a plausible slip: saturated edges are written as well
RECURSIVE ResidualFill_Saturated(_, _, _, _)
ResidualFill_Saturated(g, cap, fl, i) ==
    IF i >= igraph_ecount(g) THEN <<>>
    ELSE (IF cap[i] - fl[i] >= 0
          THEN << [edge |-> <<IGRAPH_FROM(g, i), IGRAPH_TO(g, i)>>, c |-> cap[i] - fl[i]] >>
          ELSE <<>>)
         \o ResidualFill_Saturated(g, cap, fl, i + 1)

\* lines 171-182: the edges written and their residual capacities
RECURSIVE ResidualFill(_, _, _, _)
ResidualFill(g, cap, fl, i) ==
    IF i >= igraph_ecount(g) THEN <<>>
    ELSE (IF cap[i] - fl[i] > 0
          THEN << [edge |-> <<IGRAPH_FROM(g, i), IGRAPH_TO(g, i)>>, c |-> cap[i] - fl[i]] >>
          ELSE <<>>)
         \o ResidualFill(g, cap, fl, i + 1)

\* lines 148-188, with the count and the entries written; tmp and
\* residual_capacity have room for no_new_edges entries
ResidualBuild(g, rcap, no_new_edges, filled) ==
    [ret |-> IGRAPH_SUCCESS,
     residual |-> igraph_create(
                      EdgeVector(no_new_edges, [k \in 1..Len(filled) |-> filled[k].edge]),
                      igraph_vcount(g)),
     residual_capacity |-> IF rcap # NULL
                           THEN ResizeAndWrite(rcap, no_new_edges,
                                               [k \in 1..Len(filled) |-> filled[k].c])
                           ELSE rcap]

igraph_i_residual_graph(g, cap, rcap, fl) ==
    ResidualBuild(g, rcap, ResidualCount(g, cap, fl, 0), ResidualFill(g, cap, fl, 0))

\* a plausible slip: the size of the flow vector is not checked
igraph_residual_graph_NoFlowCheck(g, cap, rcap, fl) ==
    IF igraph_vector_size(cap) # igraph_ecount(g)
    THEN [ret |-> IGRAPH_EINVAL, residual |-> NoGraph, residual_capacity |-> rcap]
    ELSE igraph_i_residual_graph(g, cap, rcap, fl)

\* lines 190-215
igraph_residual_graph(g, cap, rcap, fl) ==
    IF igraph_vector_size(cap) # igraph_ecount(g)
    THEN [ret |-> IGRAPH_EINVAL, residual |-> NoGraph, residual_capacity |-> rcap]
    ELSE IF igraph_vector_size(fl) # igraph_ecount(g)
    THEN [ret |-> IGRAPH_EINVAL, residual |-> NoGraph, residual_capacity |-> rcap]
    ELSE igraph_i_residual_graph(g, cap, rcap, fl)

(***************************************************************************)
(* Specification TransformSpec: one call of igraph_even_tarjan_reduction   *)
(* or of igraph_residual_graph.                                            *)
(***************************************************************************)
GraphTriangle == igraph_create(<< <<0, 1>>, <<1, 2>>, <<2, 0>> >>, 3)

\* a graph of n vertices and m edges, the edges going round a ring
RingGraph(n, m) == igraph_create([k \in 1..m |-> <<(k - 1) % n, k % n>>], n)

\* graphs of every size the container can hold
SizedGraphs ==
    {RingGraph(n, m) : n \in 1..IGRAPH_VCOUNT_MAX, m \in 0..IGRAPH_ECOUNT_MAX}
        \cup {igraph_create(<<>>, 0)}

\* a vector of the caller that holds something from an earlier use
StaleVector == [i \in {0} |-> -1]

\* capacity and flow of one edge: unsaturated, saturated, overfull
CapacityFlowPairs == {<<1, 0>>, <<2, 1>>, <<1, 1>>, <<1, 2>>}

ReductionInputs ==
    /\ \/ \E g \in EnumeratedGraphs \cup {GraphS3, GraphTriangle} :
              graph \in {g, Undirected(g)}
       \/ graph \in SizedGraphs
    /\ capacity \in {NULL, StaleVector}
    /\ flow = <<>>
    /\ residual_capacity = <<>>

ResidualInputs ==
    /\ graph \in EnumeratedGraphs \cup {GraphS3}
    /\ \/ \E p \in [0..(igraph_ecount(graph) - 1) -> CapacityFlowPairs] :
              /\ capacity = [i \in 0..(igraph_ecount(graph) - 1) |-> p[i][1]]
              /\ flow = [i \in 0..(igraph_ecount(graph) - 1) |-> p[i][2]]
       \/ /\ capacity = Vec(igraph_ecount(graph) + 1, 1)
          /\ flow \in {Vec(igraph_ecount(graph), 0), Vec(igraph_ecount(graph) + 1, 0)}
       \/ /\ capacity = Vec(igraph_ecount(graph), 1)
          /\ flow = Vec(igraph_ecount(graph) + 1, 0)
    /\ residual_capacity \in {NULL, StaleVector}

\* scenario S6: the single edge 0 -> 1 on two vertices
GraphS6 == igraph_create(<< <<0, 1>> >>, 2)

FlowValues == {0, 1, 2}

ReverseResidualInputs ==
    /\ graph \in EnumeratedGraphs \cup {GraphS3, GraphS6}
    /\ \/ \E p \in [0..(igraph_ecount(graph) - 1) -> CapacityFlowPairs] :
              /\ capacity = [i \in 0..(igraph_ecount(graph) - 1) |-> p[i][1]]
              /\ flow = [i \in 0..(igraph_ecount(graph) - 1) |-> p[i][2]]
       \/ /\ capacity = NULL
          /\ flow \in [0..(igraph_ecount(graph) - 1) -> FlowValues]
       \/ /\ capacity \in {NULL, Vec(igraph_ecount(graph), 1)}
          /\ flow = Vec(igraph_ecount(graph) + 1, 0)
       \/ /\ capacity = Vec(igraph_ecount(graph) + 1, 1)
          /\ flow \in {Vec(igraph_ecount(graph), 0), Vec(igraph_ecount(graph) + 1, 0)}
    /\ residual_capacity = <<>>

\* igraph_residual_graph called without a capacity vector
AbsentCapacityInputs ==
    /\ graph \in EnumeratedGraphs
    /\ capacity = NULL
    /\ flow = Vec(igraph_ecount(graph), 0)
    /\ residual_capacity = NULL

TransformInit ==
    /\ \/ pc = "even_tarjan" /\ ReductionInputs
       \/ pc = "residual_graph" /\ (ResidualInputs \/ AbsentCapacityInputs)
       \/ pc = "reverse_residual_graph" /\ ReverseResidualInputs
    /\ graphbar = NoGraph /\ residual = NoGraph
    /\ value = 0 /\ NtoL = <<>> /\ VE1bool = <<>> /\ closedsets = <<>>
    /\ ret = NoRet
    /\ NoCutState
    /\ NoDomState

EvenTarjanUpdate(r) ==
    /\ ret' = r.ret
    /\ graphbar' = r.graphbar
    /\ capacity' = r.capacity

\* lines 85-146
EvenTarjanReduction ==
    /\ pc = "even_tarjan"
    /\ \E product \in EvenTarjanProduct(igraph_ecount(graph)) :
           EvenTarjanUpdate(igraph_even_tarjan_reduction(graph, capacity, product))
    /\ pc' = "even_tarjan_return"
    /\ UNCHANGED <<graph, flow, value, residual, NtoL, VE1bool, closedsets, residual_capacity>>
    /\ UNCHANGED cutVars
    /\ UNCHANGED domVars

ResidualUpdate(r) ==
    /\ ret' = r.ret
    /\ residual' = r.residual
    /\ residual_capacity' = r.residual_capacity

\* lines 190-215
ResidualGraph ==
    /\ pc = "residual_graph"
    /\ capacity # NULL
    /\ ResidualUpdate(igraph_residual_graph(graph, capacity, residual_capacity, flow))
    /\ pc' = "residual_graph_return"
    /\ UNCHANGED <<graph, capacity, flow, value, NtoL, VE1bool, closedsets, graphbar>>
    /\ UNCHANGED cutVars
    /\ UNCHANGED domVars

\* line 199: igraph_vector_size reads through the null pointer, the call
\* does not return
ResidualGraphAbort ==
    /\ pc = "residual_graph"
    /\ capacity = NULL
    /\ pc' = "aborted"
    /\ UNCHANGED <<graph, ret>>
    /\ UNCHANGED flowVars
    /\ UNCHANGED cutVars
    /\ UNCHANGED domVars

ReverseResidualUpdate(r) ==
    /\ ret' = r.ret
    /\ residual' = r.residual

\* lines 260-282
ReverseResidualGraph ==
    /\ pc = "reverse_residual_graph"
    /\ ReverseResidualUpdate(igraph_reverse_residual_graph(graph, capacity, flow))
    /\ pc' = "reverse_residual_graph_return"
    /\ UNCHANGED <<graph, capacity, flow, value, NtoL, VE1bool, closedsets,
                   graphbar, residual_capacity>>
    /\ UNCHANGED cutVars
    /\ UNCHANGED domVars

TransformNext ==
    EvenTarjanReduction \/ ResidualGraph \/ ResidualGraphAbort \/ ReverseResidualGraph

TransformSpec == TransformInit /\ [][TransformNext]_vars

EvenTarjanReturned == pc = "even_tarjan_return"
ResidualReturned == pc = "residual_graph_return"
ReverseResidualReturned == pc = "reverse_residual_graph_return"

\* the sizes of the reduced graph fit the integer type and the container
ReducedSizesFit(g) ==
    /\ IsRepresentable(2 * igraph_vcount(g))
    /\ IsRepresentable(2 * igraph_ecount(g) + igraph_vcount(g))
    /\ 2 * igraph_ecount(g) + igraph_vcount(g) <= IGRAPH_ECOUNT_MAX

C19_OverflowDetected ==
    EvenTarjanReturned =>
        /\ ~ReducedSizesFit(graph) => (ret = IGRAPH_EOVERFLOW /\ graphbar = NoGraph)
        /\ ret = IGRAPH_SUCCESS =>
               /\ IsRepresentable(2 * igraph_ecount(graph))
               /\ igraph_ecount(graphbar) = 2 * igraph_ecount(graph) + igraph_vcount(graph)
        /\ ret \in {IGRAPH_SUCCESS, IGRAPH_EOVERFLOW}

\* the sum 2m + n did not fit the integer type although 2n and 2m did
C19_Witness ==
    /\ EvenTarjanReturned /\ ret = IGRAPH_EOVERFLOW /\ graphbar = NoGraph
    /\ IsRepresentable(2 * igraph_vcount(graph))
    /\ IsRepresentable(2 * igraph_ecount(graph))
    /\ ~IsRepresentable(2 * igraph_ecount(graph) + igraph_vcount(graph))

(***************************************************************************)
(* C20: with capacity and flow of length m, igraph_residual_graph succeeds *)
(* and residual is a directed graph on the vertices of the input whose     *)
(* edges are (from(e), to(e)) for the edges e with capacity - flow > 0, in *)
(* increasing order of e, and nothing else; a requested residual_capacity  *)
(* holds capacity - flow of the k-th such edge at k; the first pass counts *)
(* as many edges as the second writes.                                     *)
(***************************************************************************)
C20_ResidualGraph ==
    (/\ ResidualReturned
     /\ igraph_vector_size(capacity) = igraph_ecount(graph)
     /\ igraph_vector_size(flow) = igraph_ecount(graph)) =>
        LET positive == SortedSeq({e \in 0..(igraph_ecount(graph) - 1) :
                                       capacity[e] - flow[e] > 0})
        IN /\ ret = IGRAPH_SUCCESS
           /\ igraph_is_directed(residual)
           /\ igraph_vcount(residual) = igraph_vcount(graph)
           /\ igraph_ecount(residual) = Len(positive)
           /\ \A k \in 1..Len(positive) :
                  residual.edges[k] = <<IGRAPH_FROM(graph, positive[k]), IGRAPH_TO(graph, positive[k])>>
           /\ residual_capacity # NULL =>
                  /\ DOMAIN residual_capacity = 0..(Len(positive) - 1)
                  /\ \A k \in DOMAIN residual_capacity :
                         residual_capacity[k] = capacity[positive[k + 1]] - flow[positive[k + 1]]
           /\ ResidualCount(graph, capacity, flow, 0) = Len(ResidualFill(graph, capacity, flow, 0))

\* a saturated edge was left out and an unsaturated one later in the list kept
C20_Witness ==
    /\ ResidualReturned /\ ret = IGRAPH_SUCCESS /\ residual_capacity # NULL
    /\ igraph_ecount(graph) = 2
    /\ capacity[0] - flow[0] = 0 /\ capacity[1] - flow[1] = 1
    /\ igraph_ecount(residual) = 1
    /\ residual_capacity = Vec(1, 1)

\* the number of positions of the edge list that hold the pair
EdgeMultiplicity(g, pair) ==
    Cardinality({k \in 1..igraph_ecount(g) : g.edges[k] = pair})

\* capacity of edge e, 1 without a capacity vector
CapacityOrOne(e) == IF capacity # NULL THEN capacity[e] ELSE 1

ValidSizes ==
    /\ igraph_vector_size(flow) = igraph_ecount(graph)
    /\ capacity # NULL => igraph_vector_size(capacity) = igraph_ecount(graph)

(***************************************************************************)
(* C21: with a flow of length m (and a capacity vector, if given, of       *)
(* length m) igraph_reverse_residual_graph succeeds and residual is a      *)
(* directed graph on the vertices of the input in which every pair (a, b)  *)
(* occurs as often as there are edges e = (a, b) with flow > 0 plus edges  *)
(* e = (b, a) with flow < capacity, the capacity being 1 without a         *)
(* capacity vector.                                                        *)
(***************************************************************************)
C21_ReverseResidualGraph ==
    (ReverseResidualReturned /\ ValidSizes) =>
        /\ ret = IGRAPH_SUCCESS
        /\ igraph_is_directed(residual)
        /\ igraph_vcount(residual) = igraph_vcount(graph)
        /\ \A a, b \in Vertices(graph) :
               EdgeMultiplicity(residual, <<a, b>>) =
                   Cardinality({e \in 0..(igraph_ecount(graph) - 1) :
                                   /\ graph.edges[e + 1] = <<a, b>>
                                   /\ flow[e] > 0})
                   + Cardinality({e \in 0..(igraph_ecount(graph) - 1) :
                                     /\ graph.edges[e + 1] = <<b, a>>
                                     /\ flow[e] < CapacityOrOne(e)})

\* without a capacity vector: an edge 0 -> 1 without flow and an edge
\* 1 -> 2 with a flow of 1 have both become 1 -> 0 and 1 -> 2
C21_Witness ==
    /\ ReverseResidualReturned /\ ret = IGRAPH_SUCCESS /\ capacity = NULL
    /\ graph.edges = << <<0, 1>>, <<1, 2>> >>
    /\ flow[0] = 0 /\ flow[1] = 1
    /\ residual.edges = << <<1, 0>>, <<1, 2>> >>

\* the number of edges e = pair of the input that satisfy the test
EdgesWith(pair, Test(_)) ==
    Cardinality({e \in 0..(igraph_ecount(graph) - 1) :
                    graph.edges[e + 1] = pair /\ Test(e)})

Unsaturated(e) == flow[e] < CapacityOrOne(e)
Carrying(e) == flow[e] > 0

(***************************************************************************)
(* C22, as stated in the data model: an edge e gives the residual graph    *)
(* the edge (from, to) exactly when flow < capacity, and gives the reverse *)
(* residual graph the edge (from, to) exactly when flow < capacity and the *)
(* edge (to, from) exactly when flow > 0.                                  *)
(***************************************************************************)
C22_ResidualEdges_AsStated ==
    /\ (ResidualReturned /\ ret = IGRAPH_SUCCESS) =>
           \A a, b \in Vertices(graph) :
               EdgeMultiplicity(residual, <<a, b>>) = EdgesWith(<<a, b>>, Unsaturated)
    /\ (ReverseResidualReturned /\ ret = IGRAPH_SUCCESS) =>
           \A a, b \in Vertices(graph) :
               EdgeMultiplicity(residual, <<a, b>>) =
                   EdgesWith(<<a, b>>, Unsaturated) + EdgesWith(<<b, a>>, Carrying)

(***************************************************************************)
(* C22: an edge e gives the residual graph the edge (from, to) exactly     *)
(* when flow < capacity, and gives the reverse residual graph the edge     *)
(* (from, to) exactly when flow > 0 and the edge (to, from) exactly when   *)
(* flow < capacity; the edge 0 -> 1 with capacity 2 and flow 1 gives the   *)
(* reverse residual graph (0, 1) and (1, 0).                               *)
(***************************************************************************)
C22_ResidualEdges ==
    /\ (ResidualReturned /\ ret = IGRAPH_SUCCESS) =>
           \A a, b \in Vertices(graph) :
               EdgeMultiplicity(residual, <<a, b>>) = EdgesWith(<<a, b>>, Unsaturated)
    /\ (ReverseResidualReturned /\ ret = IGRAPH_SUCCESS) =>
           /\ \A a, b \in Vertices(graph) :
                  EdgeMultiplicity(residual, <<a, b>>) =
                      EdgesWith(<<a, b>>, Carrying) + EdgesWith(<<b, a>>, Unsaturated)
           /\ (graph = GraphS6 /\ capacity = Vec(1, 2) /\ flow = Vec(1, 1)) =>
                  residual.edges = << <<0, 1>>, <<1, 0>> >>

\* scenario S6 has run
C22_Witness ==
    /\ ReverseResidualReturned /\ ret = IGRAPH_SUCCESS
    /\ graph = GraphS6 /\ capacity = Vec(1, 2) /\ flow = Vec(1, 1)
    /\ igraph_ecount(residual) = 2

(***************************************************************************)
(* C23: igraph_residual_graph and igraph_reverse_residual_graph return     *)
(* IGRAPH_EINVAL and leave the output graph uninitialized when the flow    *)
(* vector, or a capacity vector that is given, does not have m entries;    *)
(* igraph_reverse_residual_graph succeeds without a capacity vector, and a *)
(* call of igraph_residual_graph without one does not return.              *)
(***************************************************************************)
C23_InvalidSizes ==
    /\ ((ResidualReturned \/ ReverseResidualReturned) /\ ~ValidSizes) =>
           (ret = IGRAPH_EINVAL /\ residual = NoGraph)
    /\ (ReverseResidualReturned /\ ValidSizes) => ret = IGRAPH_SUCCESS
    /\ ResidualReturned => capacity # NULL
    /\ (pc = "aborted") => (capacity = NULL /\ ret = NoRet /\ residual = NoGraph)

\* a flow vector that is too long has been refused by igraph_residual_graph
C23_Witness ==
    /\ ResidualReturned /\ ret = IGRAPH_EINVAL /\ residual = NoGraph
    /\ igraph_vector_size(capacity) = igraph_ecount(graph)
    /\ igraph_vector_size(flow) = igraph_ecount(graph) + 1

(***************************************************************************)
(* Specification FaultSpec: one call of either facade in which the memory  *)
(* may run out inside a pivot.  Every allocation of a pivot is under       *)
(* IGRAPH_CHECK, so the pivot returns IGRAPH_ENOMEM at once.               *)
(***************************************************************************)
\* lines 748-893: igraph_i_all_st_cuts_pivot writes Isv in its last
\* statement (line 900), a failure before it leaves Isv as the caller made it
AllCutsPivotFailure(v0) == [ret |-> IGRAPH_ENOMEM, v |-> v0, Isv |-> <<>>]

\* lines 1220-1277: igraph_i_all_st_mincuts_pivot fails before v is written,
\* or in one of the push_back calls of line 1277 with a part of Isv written;
\* p is what the call would have left without the failure
MincutsPivotFailures(p, v0) ==
    {[ret |-> IGRAPH_ENOMEM, v |-> v0, Isv |-> <<>>]}
        \cup {[ret |-> IGRAPH_ENOMEM, v |-> p.v, Isv |-> SubSeq(p.Isv, 1, k)] :
                 k \in 0..(Len(p.Isv) - 1)}

\* the failures do not depend on the capacities: none are given; the
\* graphs are the enumerated ones and the diamond
FaultInit ==
    \/ CutInit
    \/ MinCutInit /\ capacity = NULL /\ igraph_vcount(graph) <= igraph_vcount(GraphS3)

\* lines 937-959, the pivot failing
ProvanShierEnterFailing ==
    /\ pc = "call"
    /\ EnumerationUpdate(provan_shier_list_branch(Enumeration, AllCutsPivotFailure(0)))

MincutsEnterFailing ==
    /\ pc = "mincuts_call"
    /\ \E p \in MincutsPivotFailures(
                    igraph_i_all_st_mincuts_pivot(residual, S, T, NtoL[source], NtoL[target],
                                                  0, VE1bool), 0) :
           MinEnumerationUpdate(provan_shier_list_branch(MinEnumeration, p))

FaultNext == StCutsNext \/ ProvanShierEnterFailing \/ MincutsEnterFailing

FaultSpec == FaultInit /\ [][FaultNext]_vars

PivotFailed == pivot_ret \notin {NoRet, IGRAPH_SUCCESS}

(***************************************************************************)
(* C24, as stated: once a pivot has returned an error the search is over:  *)
(* the facade has returned that error, and no partition has been emitted   *)
(* by the call of the search in which the pivot failed.                    *)
(***************************************************************************)
C24_ErrorsPropagate_AsStated ==
    PivotFailed => (pc = "done" /\ ret = pivot_ret)

(***************************************************************************)
(* The search tree of igraph_provan_shier_list.                            *)
(***************************************************************************)
\* a call of the search has been entered, or one has returned
AtNodeEntry == pc \in {"call", "mincuts_call"}
AtNodeReturn == pc \in {"return", "mincuts_return"}

SetOfS == SeqSet(S.list)
SetOfT == SeqSet(T.stack)

(***************************************************************************)
(* C25: at every node of the search tree of either facade, and while a     *)
(* node pushes its pivot on T or its batch I(S,v) into S, no vertex is in  *)
(* S and in T; the bitmaps of S and T agree with their lists.              *)
(***************************************************************************)
C25_DisjointSAndT ==
    (AtNodeEntry \/ AtNodeReturn) =>
        /\ SetOfS \cap SetOfT = {}
        /\ \A u \in DOMAIN S.set : ~(S.set[u] /\ T.isin[u])
        /\ SetOfS = {u \in DOMAIN S.set : S.set[u]}
        /\ SetOfT = {u \in DOMAIN T.isin : T.isin[u]}

\* all-cuts pivot: a pivot is on T below a right child whose batch in S
\* holds a vertex from which the target cannot be reached
C25_Witness ==
    /\ pc = "call"
    /\ Len(T.stack) > 0
    /\ \E k \in 1..Len(frames) :
           /\ frames[k].phase = "right"
           /\ \E u \in SeqSet(frames[k].Isv) :
                  /\ u \in SetOfS
                  /\ u \notin ReachGrow(graph, IGRAPH_IN, Vertices(graph), {target})

\* the graph the search runs on: the input of igraph_all_st_cuts, the
\* contracted reverse residual graph of igraph_all_st_mincuts
SearchGraph == IF pc \in {"call", "return"} THEN graph ELSE residual

\* the calls of the search that have not returned
SearchDepth == Len(frames) + 1

\* the place of a state in the depth-first walk of the search tree, as a
\* number in base 4 with one digit per level: 1 below a left child, 2 below
\* a right child, and for the running call 0 on entry and 3 on return
RECURSIVE FramesRank(_, _, _)
FramesRank(fr, levels, i) ==
    IF i > Len(fr) THEN 0
    ELSE (IF fr[i].phase = "left" THEN 1 ELSE 2) * 4 ^ (levels - i)
         + FramesRank(fr, levels, i + 1)

SearchRank ==
    IF pc \in {"begin", "mincuts_begin"} THEN 0
    ELSE IF AtNodeEntry THEN 1 + FramesRank(frames, igraph_vcount(graph), 1)
    ELSE IF AtNodeReturn
    THEN 1 + FramesRank(frames, igraph_vcount(graph), 1)
           + 3 * 4 ^ (igraph_vcount(graph) - SearchDepth)
    ELSE 1 + 4 ^ (igraph_vcount(graph) + 1)

\* the step enters the left child: the pivot, in neither S nor T, is new on T
EntersLeftChild ==
    /\ S' = S
    /\ \E v \in DOMAIN T.isin :
           /\ v \notin SetOfS \cup SetOfT
           /\ T'.stack = Append(T.stack, v)

\* the step enters the right child of the node whose left child returned:
\* the pivot is off T and S has grown, so S and T together are more than
\* they were at the node
EntersRightChild ==
    /\ T'.stack = Front(T.stack)
    /\ SetOfS \subseteq SeqSet(S'.list)
    /\ SeqSet(S'.list) \ SetOfS # {}
    /\ (SeqSet(S'.list) \cup SeqSet(T'.stack)) \ (SetOfS \cup SeqSet(Front(T.stack))) # {}

(***************************************************************************)
(* C26: with either pivot, a step that enters a child does so with more    *)
(* vertices in S and T together than at the node: the left child with a    *)
(* pivot on T that was in neither, the right child with at least one new   *)
(* vertex in S; no more than n calls of the search are open at a time, n   *)
(* the vertex count of the graph searched; and every step takes the search *)
(* forward in the depth-first order of the tree, which has an end.         *)
(***************************************************************************)
C26_SearchGrows ==
    [][/\ (AtNodeEntry /\ AtNodeEntry') => EntersLeftChild
       /\ (AtNodeReturn /\ AtNodeEntry') => EntersRightChild
       /\ AtNodeEntry' => SearchDepth' <= igraph_vcount(SearchGraph')
       /\ SearchRank' > SearchRank
       /\ SearchRank' <= 1 + 4 ^ (igraph_vcount(graph) + 1)]_vars

\* a right child has been entered with n calls open
C26_Witness ==
    /\ AtNodeEntry
    /\ SearchDepth = igraph_vcount(SearchGraph)
    /\ Last(frames).phase = "right"

(***************************************************************************)
(* The minimal active elements of Sbar, during igraph_all_st_mincuts.      *)
(***************************************************************************)
\* the vertices the pivot of igraph_all_st_mincuts keeps: those not in S
VerticesOutsideS ==
    Marked([i \in Vertices(residual) |-> ~igraph_marked_queue_int_iselement(S, i)],
           igraph_vcount(residual), 0)

\* the pivot builds Sbar: the enumeration is at a node, and S is not everything
AtMincutsPivot ==
    /\ pc = "mincuts_call"
    /\ igraph_marked_queue_int_size(S) # igraph_vcount(residual)

\* Sbar with its maps, as the pivot computes it
SbarOfPivot == igraph_induced_subgraph_map(residual, VerticesOutsideS)

\* the vertex i of Sbar is active
ActiveInSbar(Sbar, active, i) == active[Sbar.invmap[i]]

\* the comment of igraph_i_all_st_mincuts_minimal: the active vertices v of
\* Sbar that no other active vertex w of Sbar reaches by a directed path of
\* Sbar, whatever the path passes through
MinimalActiveElements(Sbar, active) ==
    {v \in Vertices(Sbar.graph) :
        /\ ActiveInSbar(Sbar, active, v)
        /\ \A w \in Vertices(Sbar.graph) \ {v} :
               ActiveInSbar(Sbar, active, w)
                   => v \notin Reachable(Sbar.graph, w, IGRAPH_OUT)}

\* what the code computes: the active vertices with no active in-neighbour
ActiveWithoutActiveInNeighbour(Sbar, active) ==
    {v \in Vertices(Sbar.graph) :
        /\ ActiveInSbar(Sbar, active, v)
        /\ \A w \in Heads(Sbar.graph, IGRAPH_IN, {v}) : ~ActiveInSbar(Sbar, active, w)}

\* C27 as stated: igraph_i_all_st_mincuts_minimal returns exactly the
\* minimal active elements of Sbar, the active vertices that no other
\* active vertex reaches by a directed path in Sbar.
C27_MinimalActive_AsStated ==
    AtMincutsPivot =>
        SeqSet(igraph_i_all_st_mincuts_minimal(SbarOfPivot.graph, VE1bool, SbarOfPivot.invmap))
            = MinimalActiveElements(SbarOfPivot, VE1bool)

\* what the single pass of lines 1153-1163 returns instead
C27_MinimalActive_Computed ==
    AtMincutsPivot =>
        SeqSet(igraph_i_all_st_mincuts_minimal(SbarOfPivot.graph, VE1bool, SbarOfPivot.invmap))
            = ActiveWithoutActiveInNeighbour(SbarOfPivot, VE1bool)

(***************************************************************************)
(* The scratch vectors of igraph_dominator_tree after step 1.              *)
(***************************************************************************)
\* the DFS of step 1 and the numbering loop have run; parent and vertex
\* are not written afterwards
AfterDfsStep == pc = "main"

\* v is among the first component_size entries of vertex, stored 1-based
InPreorderList(v) == \E k \in 0..(dw.component_size - 1) : dw.vertex[k] = v + 1

ReachableFromRoot(v) == v \in Reachable(graph, root, mode)

\* C28 as stated: after the DFS step, parent[v] >= 0, v being reachable
\* from the root, and v being among the first component_size entries of
\* vertex are equivalent, for every vertex v.
C28_ParentReachable_AsStated ==
    AfterDfsStep =>
        \A v \in Vertices(graph) :
            /\ (dw.parent[v] >= 0) <=> ReachableFromRoot(v)
            /\ ReachableFromRoot(v) <=> InPreorderList(v)

\* C28, amended: after the DFS step, parent[v] >= -1, v being reachable
\* from the root, and v being among the first component_size entries of
\* vertex are equivalent; the root has parent -1, every other reachable
\* vertex has a parent >= 0 and every unreachable vertex has parent -2.
C28_ParentReachable ==
    AfterDfsStep =>
        /\ dw.parent[root] = -1
        /\ \A v \in Vertices(graph) :
               /\ (dw.parent[v] >= -1) <=> ReachableFromRoot(v)
               /\ ReachableFromRoot(v) <=> InPreorderList(v)
               /\ (dw.parent[v] >= 0) <=> (ReachableFromRoot(v) /\ v # root)
               /\ ~ReachableFromRoot(v) => dw.parent[v] = -2

\* after the DFS step of a graph with a reachable vertex besides the
\* root (vertex 0 among them) and an unreachable one
C28_Witness ==
    /\ AfterDfsStep
    /\ root # 0 /\ ReachableFromRoot(0)
    /\ \E v \in Vertices(graph) : ~ReachableFromRoot(v)

(***************************************************************************)
(* The frame effect of igraph_provan_shier_list on S and T.  The open      *)
(* calls (frames) are the same at the entry of a call and at its return,   *)
(* so S and T are restored if they are a function of the open calls.       *)
(***************************************************************************)
\* S as the open calls have built it from the facade's empty queue: one
\* batch for every open call that is in its right child
RECURSIVE SAtEntry(_, _, _)
SAtEntry(fr, k, q) ==
    IF k > Len(fr) THEN q
    ELSE SAtEntry(fr, k + 1,
                  IF fr[k].phase = "right"
                  THEN PushIsv(igraph_marked_queue_int_start_batch(q), fr[k].Isv, 0)
                  ELSE q)

\* T as the open calls have built it: the pivot of every open call that
\* is in its left child
RECURSIVE TAtEntry(_, _, _)
TAtEntry(fr, k, s) ==
    IF k > Len(fr) THEN s
    ELSE TAtEntry(fr, k + 1,
                  IF fr[k].phase = "left" THEN igraph_estack_push(s, fr[k].v).s ELSE s)

\* C29: at the entry and at the return of every call of the search, S
\* (contents, order, batch boundaries) and T (contents, order) are what
\* the open calls make them, hence the same at a call's return as at its
\* entry; a returning leaf changes neither; S and T are empty when the
\* top-level call returns and stay so until the facade returns.
C29_FrameEffect ==
    /\ (AtNodeEntry \/ AtNodeReturn) =>
           /\ S = SAtEntry(frames, 1, igraph_marked_queue_int_init(igraph_vcount(graph)))
           /\ T = TAtEntry(frames, 1, igraph_estack_init(igraph_vcount(graph)))
           /\ Len(S.batches) = Cardinality({k \in DOMAIN frames : frames[k].phase = "right"})
    /\ ((AtNodeReturn /\ frames = <<>>) \/ (pc = "done" /\ ret = IGRAPH_SUCCESS)) =>
           /\ S.list = <<>> /\ S.batches = <<>> /\ \A v \in DOMAIN S.set : ~S.set[v]
           /\ T.stack = <<>> /\ \A v \in DOMAIN T.isin : ~T.isin[v]

\* the top-level call of igraph_all_st_cuts returns after it has listed
\* at least two partitions, so both children of some call have run
C29_Witness ==
    /\ pc = "return" /\ frames = <<>>
    /\ Len(partition1s) >= 2
    /\ S.list = <<>> /\ T.stack = <<>>

(***************************************************************************)
(* The source and the target after the contraction, in                     *)
(* igraph_all_st_mincuts.                                                  *)
(***************************************************************************)
\* every integer maximum flow from s to t, those with flow cycles included
MaximumFlows(g, cap, s, t) ==
    LET fls == {fl \in [0..(igraph_ecount(g) - 1) ->
                           0..Max({CapacityOf(cap, i) : i \in 0..(igraph_ecount(g) - 1)} \cup {0})] :
                   /\ \A i \in 0..(igraph_ecount(g) - 1) : fl[i] <= CapacityOf(cap, i)
                   /\ \A v \in Vertices(g) : v \in {s, t} \/ NetInflow(g, fl, v, 0) = 0}
    IN {f \in fls : \A h \in fls : NetInflow(g, h, t, 0) <= NetInflow(g, f, t, 0)}

\* the call has passed the argument checks and is about to compute the flow
ValidMincutsCall ==
    /\ pc = "mincuts_begin"
    /\ igraph_all_st_mincuts_check(graph, source, target, capacity) = IGRAPH_SUCCESS

\* lines 1421-1422: newsource and newtarget have been read
Contracted == pc \in {"mincuts_call", "mincuts_return"}

\* C30: for every valid input of igraph_all_st_mincuts and every maximum
\* flow, no strongly connected component of the reverse residual graph
\* holds both the source and the target (the source is not reachable from
\* the target in it), so newsource # newtarget after the contraction.
C30_SourceTargetApart ==
    /\ ValidMincutsCall =>
           \A fl \in MaximumFlows(graph, capacity, source, target) :
               /\ source \notin Reachable(igraph_reverse_residual_graph(graph, capacity, fl).residual,
                                          target, IGRAPH_OUT)
               /\ \A c \in StrongComponents(
                               igraph_reverse_residual_graph(graph, capacity, fl).residual) :
                      ~({source, target} \subseteq c)
    /\ Contracted => NtoL[source] # NtoL[target]

\* the graph carries flow and the contraction has merged the source
\* with another vertex
C30_Witness ==
    /\ pc = "mincuts_call"
    /\ value > 0
    /\ \E v \in Vertices(graph) \ {source} : NtoL[v] = NtoL[source]
    /\ NtoL[source] # NtoL[target]

====
